---- MODULE Spec2Model ----
(***************************************************************************)
(* A model of the response-to-domain-model mapping layer of fortnite_api:  *)
(* the cosmetic constructors (cosmetics/common.py, br.py, car.py), the     *)
(* "new cosmetics" aggregation (new.py), the AES key record (aes.py) and   *)
(* the endpoint call layer (endpoints.py).                                 *)
(*                                                                         *)
(* JSON values and Python objects are tagged records: every value has a    *)
(* field t.  A raised exception is the value [t |-> "raise", ...]; every   *)
(* operator propagates a raise of its argument, as Python does.            *)
(***************************************************************************)
EXTENDS Naturals, Integers, Sequences, FiniteSets, TLC

VARIABLES pc, op, data, ret, http

vars == <<pc, op, data, ret, http>>

(***************************************************************************)
(* Bounds of the model.                                                    *)
(***************************************************************************)
\* how many keys of a payload differ from the full or the minimal template
MaxEdits == 2

(***************************************************************************)
(* JSON values, Python truthiness, dict access.                            *)
(***************************************************************************)
None == [t |-> "null"]
Str(s) == [t |-> "str", s |-> s]
Obj(o) == [t |-> "obj", o |-> o]
List(l) == [t |-> "list", l |-> l]
Raise(e) == [t |-> "raise", exc |-> e]
\* not a JSON value: marks a key that a payload does not have
Absent == [t |-> "absent"]

EmptyObj == Obj([k \in {} |-> None])
EmptyList == List(<< >>)

IsRaise(v) == v.t = "raise"

\* bool(v) of Python
Truthy(v) ==
    CASE v.t = "null" -> FALSE
      [] v.t = "str" -> v.s # ""
      [] v.t = "obj" -> DOMAIN v.o # {}
      [] v.t = "list" -> Len(v.l) > 0
      [] v.t = "chars" -> Len(v.s) > 0
      [] v.t = "int" -> v.n # 0
      [] OTHER -> TRUE

\* the dict built from f, without the keys that f marks Absent
MkObj(f) == Obj([k \in {j \in DOMAIN f : f[j] # Absent} |-> f[k]])

Subscript_mut_default(d, k) ==
    IF IsRaise(d) THEN d
    ELSE IF d.t # "obj" THEN Raise("TypeError")
    ELSE IF k \in DOMAIN d.o THEN d.o[k]
    ELSE None

\* d[k]
Subscript(d, k) ==
    IF IsRaise(d) THEN d
    ELSE IF d.t # "obj" THEN Raise("TypeError")
    ELSE IF k \in DOMAIN d.o THEN d.o[k]
    ELSE Raise("KeyError")

Get_mut_subscript(d, k) ==
    IF IsRaise(d) THEN d
    ELSE IF d.t # "obj" THEN Raise("TypeError")
    ELSE IF k \in DOMAIN d.o THEN d.o[k]
    ELSE Raise("KeyError")

\* d.get(k)
Get(d, k) ==
    IF IsRaise(d) THEN d
    ELSE IF d.t # "obj" THEN Raise("AttributeError")
    ELSE IF k \in DOMAIN d.o THEN d.o[k]
    ELSE None

\* x and f(x), where fx is f(x)
AndThen(x, fx) ==
    IF IsRaise(x) THEN x
    ELSE IF Truthy(x) THEN fx
    ELSE x

Comprehension_mut_reversed(lst, results) ==
    IF IsRaise(lst) THEN lst
    ELSE IF lst.t # "list" THEN Raise("TypeError")
    ELSE LET bad == {i \in 1..Len(results) : IsRaise(results[i])}
         IN IF bad = {} THEN List([i \in 1..Len(results) |-> results[Len(results) + 1 - i]])
            ELSE results[CHOOSE i \in bad : \A j \in bad : i <= j]

Comprehension_mut_prefix(lst, results) ==
    IF IsRaise(lst) THEN lst
    ELSE IF lst.t # "list" THEN Raise("TypeError")
    ELSE LET bad == {i \in 1..Len(results) : IsRaise(results[i])}
         IN IF bad = {} THEN List(results)
            ELSE List(SubSeq(results, 1, (CHOOSE i \in bad : \A j \in bad : i <= j) - 1))

\* [f(v) for v in lst], where results is the sequence of the f(v)
Comprehension(lst, results) ==
    IF IsRaise(lst) THEN lst
    ELSE IF lst.t # "list" THEN Raise("TypeError")
    ELSE LET bad == {i \in 1..Len(results) : IsRaise(results[i])}
         IN IF bad = {} THEN List(results)
            ELSE results[CHOOSE i \in bad : \A j \in bad : i <= j]

(***************************************************************************)
(* An __init__ is the sequence of its attribute assignments, each a pair   *)
(* <<slot, value>>.  The first assignment whose value raises aborts the    *)
(* constructor; the slots assigned before it are those of the object       *)
(* under construction at that moment.                                      *)
(***************************************************************************)
FirstRaise(steps) ==
    LET bad == {i \in 1..Len(steps) : IsRaise(steps[i][2])}
    IN IF bad = {} THEN 0 ELSE CHOOSE i \in bad : \A j \in bad : i <= j

\* no __init__ of the model assigns a slot twice
AttrsUpTo(steps, n) ==
    [s \in {steps[i][1] : i \in 1..n} |-> steps[CHOOSE i \in 1..n : steps[i][1] = s][2]]

Construct(cls, steps) ==
    LET n == FirstRaise(steps)
    IN IF n = 0
       THEN [t |-> cls, attrs |-> AttrsUpTo(steps, Len(steps))]
       ELSE [t |-> "raise", exc |-> steps[n][2].exc, cls |-> cls,
             at |-> steps[n][1], attrs |-> AttrsUpTo(steps, n - 1)]

(***************************************************************************)
(* Primitive parsers (fortnite_api/utils.py) and the closed enum tables    *)
(* (fortnite_api/enums.py).                                                *)
(***************************************************************************)
Datetime(n) == [t |-> "datetime", epoch |-> n]
IntVal(n) == [t |-> "int", n |-> n]
Enum(cls, v) == [t |-> "enum", cls |-> cls, value |-> v]
Asset(url) == IF IsRaise(url) THEN url ELSE [t |-> "Asset", url |-> url]

\* the well-formed timestamp strings of the model and the instant each denotes;
\* two of them denote the same instant under different UTC offsets
TimeTable ==
    ("2022-06-05T00:00:00+00:00" :> 50) @@
    ("2023-11-01T00:00:00+00:00" :> 100) @@
    ("2023-11-01T01:00:00+01:00" :> 100) @@
    ("2024-02-03T10:00:00+00:00" :> 200) @@
    ("2024-03-01T00:00:00+00:00" :> 301) @@
    ("2024-03-02T00:00:00+00:00" :> 302) @@
    ("2024-03-03T00:00:00+00:00" :> 303) @@
    ("2024-03-04T00:00:00+00:00" :> 304) @@
    ("2024-03-05T00:00:00+00:00" :> 305) @@
    ("2024-03-06T00:00:00+00:00" :> 306) @@
    ("2024-03-07T00:00:00+00:00" :> 307)

MalformedTime == "2023-11-01"

parse_time(raw) ==
    IF IsRaise(raw) THEN raw
    ELSE IF raw.t # "str" THEN Raise("TypeError")
    ELSE IF raw.s \in DOMAIN TimeTable THEN Datetime(TimeTable[raw.s])
    ELSE Raise("ValueError")

get_with_fallback(d, key, kind) ==
    IF IsRaise(d) THEN d
    ELSE IF d.t # "obj" THEN Raise("AttributeError")
    ELSE IF key \in DOMAIN d.o /\ d.o[key] # None THEN d.o[key]
    ELSE IF kind = "dict" THEN EmptyObj ELSE EmptyList

\* int(x) of Python on the numerals of the model
IntTable == ("1" :> 1) @@ ("2" :> 2) @@ ("5" :> 5)

PyInt(v) ==
    IF IsRaise(v) THEN v
    ELSE IF v.t = "int" THEN v
    ELSE IF v.t = "str" /\ v.s \in DOMAIN IntTable THEN IntVal(IntTable[v.s])
    ELSE IF v.t = "str" THEN Raise("ValueError")
    ELSE Raise("TypeError")

CosmeticTypeValues == {"outfit", "backpack", "car"}
CosmeticRarityValues == {"epic", "rare"}
CosmeticBrSearchTagValues == {"tagA", "tagB"}

\* EnumClass(value): the member with that value, ValueError without one
EnumLookup(cls, values, v) ==
    IF IsRaise(v) THEN v
    ELSE IF v.t = "str" /\ v.s \in values THEN Enum(cls, v.s)
    ELSE Raise("ValueError")

(***************************************************************************)
(* cosmetics/common.py                                                     *)
(***************************************************************************)
HttpHandle == [t |-> "http"]

Cosmetic_init_mut_id(d) ==
    << <<"_http", HttpHandle>>,
       <<"id", Subscript(d, "name")>>,
       <<"added", parse_time(Subscript(d, "added"))>>,
       <<"raw_data", d>> >>

Cosmetic_init_mut_raw(d) ==
    << <<"_http", HttpHandle>>,
       <<"id", Subscript(d, "id")>>,
       <<"added", parse_time(Subscript(d, "added"))>>,
       <<"raw_data", IF d.t = "obj"
                     THEN Obj([k \in DOMAIN d.o \ {"added"} |-> d.o[k]])
                     ELSE d>> >>

\* Cosmetic.__init__: the assignments of the base construction step
Cosmetic_init(d) ==
    << <<"_http", HttpHandle>>,
       <<"id", Subscript(d, "id")>>,
       <<"added", parse_time(Subscript(d, "added"))>>,
       <<"raw_data", d>> >>

CosmeticTypeInfo_init(d) ==
    Construct("CosmeticTypeInfo",
        << <<"value", EnumLookup("CosmeticType", CosmeticTypeValues, Subscript(d, "value"))>>,
           <<"display_value", Subscript(d, "displayValue")>>,
           <<"backend_value", Subscript(d, "backendValue")>> >>)

CosmeticRarityInfo_init(d) ==
    Construct("CosmeticRarityInfo",
        << <<"value", EnumLookup("CosmeticRarity", CosmeticRarityValues, Subscript(d, "value"))>>,
           <<"display_value", Subscript(d, "displayValue")>>,
           <<"backend_value", Subscript(d, "backendValue")>> >>)

CosmeticSeriesInfo_init(d) ==
    Construct("CosmeticSeriesInfo",
        << <<"value", Subscript(d, "value")>>,
           <<"backend_value", Subscript(d, "backendValue")>>,
           <<"image", AndThen(Get(d, "image"), Asset(Get(d, "image")))>>,
           <<"colors", get_with_fallback(d, "colors", "list")>> >>)

\* Images.__init__ (fortnite_api/images.py), the base class of CosmeticImages
Images_init(d) == << >>

CosmeticImages_init(d) ==
    Construct("CosmeticImages",
        Images_init(d) \o
        << <<"featured", AndThen(Get(d, "featured"), Asset(Get(d, "featured")))>>,
           <<"lego", AndThen(Get(d, "lego"), Asset(Get(d, "lego")))>>,
           <<"_other", get_with_fallback(d, "other", "dict")>>,
           <<"_http", HttpHandle>> >>)

CosmeticImages_view_mut_no_check(self, key) ==
    Asset(Get(self.attrs["_other"], key))

\* the body the accessors background, coverart and decal share:
\* url = self._other.get(key); if not url: return; return Asset(url=url)
CosmeticImages_view(self, key) ==
    LET url == Get(self.attrs["_other"], key)
    IN IF IsRaise(url) THEN url
       ELSE IF ~Truthy(url) THEN None
       ELSE Asset(url)

CosmeticImages_background(self) == CosmeticImages_view(self, "background")
CosmeticImages_coverart(self) == CosmeticImages_view(self, "coverart")
CosmeticImages_decal(self) == CosmeticImages_view(self, "decal")

(***************************************************************************)
(* cosmetics/br.py                                                         *)
(***************************************************************************)
CosmeticBrSet_init(d) ==
    Construct("CosmeticBrSet",
        << <<"value", Subscript(d, "value")>>,
           <<"text", Subscript(d, "text")>>,
           <<"backend_value", Subscript(d, "backendValue")>> >>)

CosmeticBrIntroduction_init(d) ==
    Construct("CosmeticBrIntroduction",
        << <<"chapter", PyInt(Subscript(d, "chapter"))>>,
           <<"season", Subscript(d, "season")>>,
           <<"text", Subscript(d, "text")>>,
           <<"backend_value", Subscript(d, "backendValue")>> >>)

CosmeticBrVariantOption_init(d) ==
    Construct("CosmeticBrVariantOption",
        << <<"tag", Subscript(d, "tag")>>,
           <<"name", Subscript(d, "name")>>,
           <<"image", Asset(Subscript(d, "image"))>> >>)

CosmeticBrVariant_init(d) ==
    LET options == Subscript(d, "options")
    IN Construct("CosmeticBrVariant",
        << <<"channel", Subscript(d, "channel")>>,
           <<"type", Subscript(d, "type")>>,
           <<"options",
             Comprehension(options,
                 IF options.t = "list"
                 THEN [i \in 1..Len(options.l) |-> CosmeticBrVariantOption_init(options.l[i])]
                 ELSE << >>)>> >>)

\* [f(x) for x in lst] for a constructor f given as the sequence of its results
ListOf(lst) == IF lst.t = "list" THEN lst.l ELSE << >>

\* CosmeticBr.__init__.  br.py names the leaf records CosmeticType,
\* CosmeticRarity and CosmeticSeries; common.py defines them as
\* CosmeticTypeInfo, CosmeticRarityInfo and CosmeticSeriesInfo.
CosmeticBr_steps(d) ==
    LET variants == get_with_fallback(d, "variants", "list")
        search_tags == get_with_fallback(d, "searchTags", "list")
        shop == get_with_fallback(d, "shopHistory", "list")
    IN Cosmetic_init(d) \o
       << <<"name", Subscript(d, "name")>>,
          <<"description", Subscript(d, "description")>>,
          <<"type", AndThen(Get(d, "type"), CosmeticTypeInfo_init(Get(d, "type")))>>,
          <<"rarity", AndThen(Get(d, "rarity"), CosmeticRarityInfo_init(Get(d, "rarity")))>>,
          <<"series", AndThen(Get(d, "series"), CosmeticSeriesInfo_init(Get(d, "series")))>>,
          <<"set", AndThen(Get(d, "set"), CosmeticBrSet_init(Get(d, "set")))>>,
          <<"introduction",
            AndThen(Get(d, "introduction"), CosmeticBrIntroduction_init(Get(d, "introduction")))>>,
          <<"images", AndThen(Get(d, "images"), CosmeticImages_init(Get(d, "images")))>>,
          <<"variants",
            Comprehension(variants,
                [i \in 1..Len(ListOf(variants)) |-> CosmeticBrVariant_init(variants.l[i])])>>,
          <<"search_tags",
            Comprehension(search_tags,
                [i \in 1..Len(ListOf(search_tags)) |->
                    EnumLookup("CosmeticBrSearchTag", CosmeticBrSearchTagValues, search_tags.l[i])])>>,
          <<"gameplay_tags", get_with_fallback(d, "gameplayTags", "list")>>,
          <<"meta_tags", get_with_fallback(d, "metaTags", "list")>>,
          <<"showcase_video", Get(d, "showcaseVideo")>>,
          <<"dynamic_pak_id", Get(d, "dynamicPakId")>>,
          <<"display_asset_path", Get(d, "displayAssetPath")>>,
          <<"definition_path", Get(d, "definitionPath")>>,
          <<"path", Get(d, "path")>>,
          <<"shop_history",
            Comprehension(shop,
                [i \in 1..Len(ListOf(shop)) |-> parse_time(shop.l[i])])>> >>

CosmeticBr_init(d) == Construct("CosmeticBr", CosmeticBr_steps(d))

(***************************************************************************)
(* cosmetics/car.py                                                        *)
(***************************************************************************)
CosmeticCar_steps_mut_base_last(d) ==
    LET shop == get_with_fallback(d, "shopHistory", "list")
    IN << <<"vehicle_id", Subscript(d, "vehicleId")>>,
          <<"name", Subscript(d, "name")>>,
          <<"description", Subscript(d, "description")>>,
          <<"type", AndThen(Get(d, "type"), CosmeticTypeInfo_init(Get(d, "type")))>>,
          <<"rarity", AndThen(Get(d, "rarity"), CosmeticRarityInfo_init(Get(d, "rarity")))>>,
          <<"images", AndThen(Get(d, "images"), CosmeticImages_init(Get(d, "images")))>>,
          <<"series", AndThen(Get(d, "series"), CosmeticSeriesInfo_init(Get(d, "series")))>>,
          <<"gameplay_tags", get_with_fallback(d, "gameplayTags", "list")>>,
          <<"path", Get(d, "path")>>,
          <<"showcase_video_id", Get(d, "showcaseVideo")>>,
          <<"shop_history",
            Comprehension(shop,
                [i \in 1..Len(ListOf(shop)) |-> parse_time(shop.l[i])])>> >> \o
       Cosmetic_init(d)

\* CosmeticCar.__init__ (car.py names the leaf records CosmeticRarity and
\* CosmeticSeries, see CosmeticBr_steps)
CosmeticCar_steps(d) ==
    LET shop == get_with_fallback(d, "shopHistory", "list")
    IN Cosmetic_init(d) \o
       << <<"vehicle_id", Subscript(d, "vehicleId")>>,
          <<"name", Subscript(d, "name")>>,
          <<"description", Subscript(d, "description")>>,
          <<"type", AndThen(Get(d, "type"), CosmeticTypeInfo_init(Get(d, "type")))>>,
          <<"rarity", AndThen(Get(d, "rarity"), CosmeticRarityInfo_init(Get(d, "rarity")))>>,
          <<"images", AndThen(Get(d, "images"), CosmeticImages_init(Get(d, "images")))>>,
          <<"series", AndThen(Get(d, "series"), CosmeticSeriesInfo_init(Get(d, "series")))>>,
          <<"gameplay_tags", get_with_fallback(d, "gameplayTags", "list")>>,
          <<"path", Get(d, "path")>>,
          <<"showcase_video_id", Get(d, "showcaseVideo")>>,
          <<"shop_history",
            Comprehension(shop,
                [i \in 1..Len(ListOf(shop)) |-> parse_time(shop.l[i])])>> >>

CosmeticCar_init(d) == Construct("CosmeticCar", CosmeticCar_steps(d))

Car_showcase_video_mut_other_field(self) ==
    LET id == self.attrs["vehicle_id"]
    IN IF ~Truthy(id) THEN None
       ELSE [t |-> "url", prefix |-> "https://www.youtube.com/watch?v=", id |-> id]

\* CosmeticCar.showcase_video
Car_showcase_video(self) ==
    LET id == self.attrs["showcase_video_id"]
    IN IF ~Truthy(id) THEN None
       ELSE [t |-> "url", prefix |-> "https://www.youtube.com/watch?v=", id |-> id]

(***************************************************************************)
(* Hashable (fortnite_api/abc.py): equality and hash by id alone.          *)
(***************************************************************************)
Hashable_eq(a, b) == a.attrs["id"] = b.attrs["id"]
Hashable_hash(a) == [t |-> "hash", of |-> a.attrs["id"]]

(***************************************************************************)
(* new.py                                                                  *)
(***************************************************************************)
\* CosmeticTrack, CosmeticInstrument, CosmeticLego, CosmeticLegoKit
\* (cosmetics/track.py, instrument.py, lego.py, lego_kit.py): the base
\* construction step, which every variant shares
CosmeticVariant_init(cls, d) == Construct(cls, Cosmetic_init(d))

\* cosmetic_class(data=item, http=self._http)
ClassInit(cls, d) ==
    CASE cls = "CosmeticBr" -> CosmeticBr_init(d)
      [] cls = "CosmeticCar" -> CosmeticCar_init(d)
      [] OTHER -> CosmeticVariant_init(cls, d)

NewCosmetic_init_mut_default_hash(type, hash, last_addition, items) ==
    Construct("NewCosmetic",
        << <<"_http", HttpHandle>>,
           <<"type", type>>,
           <<"hash", IF hash = None THEN Str("") ELSE hash>>,
           <<"last_addition", last_addition>>,
           <<"items", items>> >>)

\* NewCosmetic.__init__
NewCosmetic_init(type, hash, last_addition, items) ==
    Construct("NewCosmetic",
        << <<"_http", HttpHandle>>,
           <<"type", type>>,
           <<"hash", hash>>,
           <<"last_addition", last_addition>>,
           <<"items", items>> >>)

\* the first value of vals that is a raise, else result
FirstRaiseOr(vals, result) ==
    LET bad == {i \in 1..Len(vals) : IsRaise(vals[i])}
    IN IF bad = {} THEN result ELSE vals[CHOOSE i \in bad : \A j \in bad : i <= j]

Or_mut_left(x, y) == x

\* x or y
Or(x, y) == IF IsRaise(x) THEN x ELSE IF Truthy(x) THEN x ELSE y

create_new_cosmetic_mut_get(raw, cosmetic_type, internal_key, cosmetic_class) ==
    LET hashes == Subscript(raw, "hashes")
        last_additions == Subscript(raw, "lastAdditions")
        items == Subscript(raw, "items")
        cosmetic_items == Or(Get(items, internal_key), EmptyList)
        last_addition_str == Get(last_additions, internal_key)
        last_addition == IF IsRaise(last_addition_str) THEN last_addition_str
                         ELSE IF Truthy(last_addition_str) THEN parse_time(last_addition_str)
                         ELSE None
        hash == Get(hashes, internal_key)
        built == Comprehension(cosmetic_items,
                     [i \in 1..Len(ListOf(cosmetic_items)) |->
                         ClassInit(cosmetic_class, cosmetic_items.l[i])])
    IN FirstRaiseOr(<<hashes, last_additions, items, cosmetic_items, last_addition_str,
                      last_addition, hash, built>>,
                    NewCosmetic_init(Enum("CosmeticType", cosmetic_type), hash, last_addition, built))

create_new_cosmetic_mut_drift(raw, cosmetic_type, internal_key, cosmetic_class) ==
    LET hashes == Subscript(raw, "hashes")
        last_additions == Subscript(raw, "lastAdditions")
        items == Subscript(raw, "items")
        cosmetic_items == Or(Subscript(items, internal_key), EmptyList)
        last_addition_str == Subscript(last_additions, "br")
        last_addition == IF IsRaise(last_addition_str) THEN last_addition_str
                         ELSE IF Truthy(last_addition_str) THEN parse_time(last_addition_str)
                         ELSE None
        hash == Subscript(hashes, internal_key)
        built == Comprehension(cosmetic_items,
                     [i \in 1..Len(ListOf(cosmetic_items)) |->
                         ClassInit(cosmetic_class, cosmetic_items.l[i])])
    IN FirstRaiseOr(<<hashes, last_additions, items, cosmetic_items, last_addition_str,
                      last_addition, hash, built>>,
                    NewCosmetic_init(Enum("CosmeticType", cosmetic_type), hash, last_addition, built))

\* NewCosmetics._create_new_cosmetic, on self.raw_data = raw
create_new_cosmetic(raw, cosmetic_type, internal_key, cosmetic_class) ==
    LET hashes == Subscript(raw, "hashes")
        last_additions == Subscript(raw, "lastAdditions")
        items == Subscript(raw, "items")
        cosmetic_items == Or(Subscript(items, internal_key), EmptyList)
        last_addition_str == Subscript(last_additions, internal_key)
        last_addition == IF IsRaise(last_addition_str) THEN last_addition_str
                         ELSE IF Truthy(last_addition_str) THEN parse_time(last_addition_str)
                         ELSE None
        hash == Subscript(hashes, internal_key)
        built == Comprehension(cosmetic_items,
                     [i \in 1..Len(ListOf(cosmetic_items)) |->
                         ClassInit(cosmetic_class, cosmetic_items.l[i])])
    IN FirstRaiseOr(<<hashes, last_additions, items, cosmetic_items, last_addition_str,
                      last_addition, hash, built>>,
                    NewCosmetic_init(Enum("CosmeticType", cosmetic_type), hash, last_addition, built))

Categories_mut_crossed ==
    << [attr |-> "br", type |-> "BR", key |-> "br", cls |-> "CosmeticBr"],
       [attr |-> "tracks", type |-> "TRACKS", key |-> "tracks", cls |-> "CosmeticTrack"],
       [attr |-> "instruments", type |-> "INSTRUMENTS", key |-> "instruments",
        cls |-> "CosmeticInstrument"],
       [attr |-> "cars", type |-> "CARS", key |-> "cars", cls |-> "CosmeticCar"],
       [attr |-> "lego", type |-> "LEGO", key |-> "lego", cls |-> "CosmeticLegoKit"],
       [attr |-> "lego_kits", type |-> "LEGO", key |-> "legoKits",
        cls |-> "CosmeticLego"] >>

\* the six attributes of NewCosmetics with the arguments __init__ passes for each
Categories ==
    << [attr |-> "br", type |-> "BR", key |-> "br", cls |-> "CosmeticBr"],
       [attr |-> "tracks", type |-> "TRACKS", key |-> "tracks", cls |-> "CosmeticTrack"],
       [attr |-> "instruments", type |-> "INSTRUMENTS", key |-> "instruments",
        cls |-> "CosmeticInstrument"],
       [attr |-> "cars", type |-> "CARS", key |-> "cars", cls |-> "CosmeticCar"],
       [attr |-> "lego", type |-> "LEGO", key |-> "lego", cls |-> "CosmeticLego"],
       [attr |-> "lego_kits", type |-> "LEGO_KITS", key |-> "legoKits",
        cls |-> "CosmeticLegoKit"] >>

\* NewCosmetics.__init__
NewCosmetics_init(d) ==
    Construct("NewCosmetics",
        << <<"_http", HttpHandle>>,
           <<"build", Subscript(d, "build")>>,
           <<"previous_build", Subscript(d, "previousBuild")>>,
           <<"date", parse_time(Subscript(d, "date"))>>,
           <<"global_hash", Subscript(Subscript(d, "hashes"), "all")>>,
           <<"global_last_addition", parse_time(Subscript(Subscript(d, "lastAdditions"), "all"))>>,
           <<"raw_data", d>> >> \o
        [i \in 1..Len(Categories) |->
            <<Categories[i].attr,
              create_new_cosmetic(d, Categories[i].type, Categories[i].key, Categories[i].cls)>>])

(***************************************************************************)
(* aes.py.  The build string is a sequence of characters, so that the      *)
(* regular expression is matched as re.search matches it.                  *)
(***************************************************************************)
Chars(s) == [t |-> "chars", s |-> s]
Digits == {"0", "1", "2", "3", "4", "5", "6", "7", "8", "9"}

\* the pattern r'\d\d.\d\d' matches s at position i ('.' is any character
\* but a newline)
Matches(s, i) ==
    /\ i + 4 <= Len(s)
    /\ s[i] \in Digits /\ s[i + 1] \in Digits
    /\ s[i + 2] # "\n"
    /\ s[i + 3] \in Digits /\ s[i + 4] \in Digits

\* re.search(r'\d\d.\d\d', build)[0]
re_search_0(build) ==
    IF build.t # "chars" THEN Raise("TypeError")
    ELSE LET at == {i \in 1..Len(build.s) : Matches(build.s, i)}
         IN IF at = {} THEN Raise("TypeError")
            ELSE LET i == CHOOSE x \in at : \A y \in at : x <= y
                 IN Chars(SubSeq(build.s, i, i + 4))

\* datetime.strptime(raw, '%Y-%m-%dT%H:%M:%S%z')
strptime(raw) ==
    IF IsRaise(raw) THEN raw
    ELSE IF raw.t # "str" THEN Raise("TypeError")
    ELSE IF raw.s \in DOMAIN TimeTable THEN Datetime(TimeTable[raw.s])
    ELSE Raise("ValueError")

\* DynamicKey.__init__
DynamicKey_init(d) ==
    Construct("DynamicKey",
        << <<"pak_filename", Get(d, "pakFilename")>>,
           <<"pak_guid", Get(d, "pakGuid")>>,
           <<"key", Get(d, "key")>> >>)

\* AES.__init__
AES_init(d) ==
    LET build == Get(d, "build")
        updated == strptime(Get(d, "updated"))
        keys == IF Truthy(Get(d, "dynamicKeys")) THEN Get(d, "dynamicKeys") ELSE EmptyList
    IN Construct("AES",
        << <<"main_key", Get(d, "mainKey")>>,
           <<"build", build>>,
           <<"version", IF Truthy(build) THEN re_search_0(build) ELSE None>>,
           <<"updated", IF IsRaise(updated) /\ updated.exc \in {"ValueError", "TypeError"}
                        THEN None ELSE updated>>,
           <<"dynamic_keys",
             Comprehension(keys, [i \in 1..Len(ListOf(keys)) |-> DynamicKey_init(keys.l[i])])>>,
           <<"raw_data", d>> >>)

\* an object with its identity: class AES defines neither __eq__ nor
\* __ne__, so a == b is object.__eq__, which is `a is b`
Ref(n, obj) == [t |-> "ref", ref |-> n, obj |-> obj]

AES_eq_mut_by_build(x, y) ==
    /\ x.t = "ref" /\ y.t = "ref"
    /\ x.obj.attrs["build"] = y.obj.attrs["build"]

\* a == b for an AES a
AES_eq(x, y) == x.t = "ref" /\ y.t = "ref" /\ x.ref = y.ref

(***************************************************************************)
(* endpoints.py.  A handler's outcome is the transport requests it issued, *)
(* what it returned or raised, and how many domain constructors it called. *)
(* response is what the transport's get returns to it.                      *)
(***************************************************************************)
Outcome(reqs, value, built) == [reqs |-> reqs, value |-> value, built |-> built]
Request(path, params) == [path |-> path, params |-> params]

\* member.value of an enum member
EnumValue(m) ==
    IF IsRaise(m) THEN m
    ELSE IF m.t = "enum" THEN Str(m.value)
    ELSE Raise("AttributeError")

GameLanguage(v) == Enum("GameLanguage", v)
MatchMethod(v) == Enum("MatchMethod", v)

\* BrCosmetic (fortnite_api/item.py), News and GameModeNews (news.py), BrShop (shop.py)
BrCosmetic_init(d) ==
    Construct("BrCosmetic", << <<"id", Subscript(d, "id")>>, <<"raw_data", d>> >>)
News_init(d) == Construct("News", << <<"raw_data", d>> >>)
GameModeNews_init(d) == Construct("GameModeNews", << <<"raw_data", d>> >>)
BrShop_init(d) == Construct("BrShop", << <<"raw_data", d>> >>)

\* the constructor calls made by a comprehension with these results
BuiltCount(results) ==
    LET bad == {i \in 1..Len(results) : IsRaise(results[i])}
    IN IF bad = {} THEN Len(results) ELSE CHOOSE i \in bad : \A j \in bad : i <= j

\* [BrCosmetic(item_data) for item_data in data['data']]
BrCosmeticList(reqs, response) ==
    LET items == Subscript(response, "data")
        results == [i \in 1..Len(ListOf(items)) |-> BrCosmetic_init(items.l[i])]
    IN Outcome(reqs, Comprehension(items, results), BuiltCount(results))

\* the keyword filters of _parse_search_parameter in the order of its if
\* statements: <<keyword, key of parameters, key read from search_parameters>>
SyncFilterTable ==
    << <<"type", "type", "type">>,
       <<"backend_type", "backendType", "backend_type">>,
       <<"rarity", "rarity", "rarity">>,
       <<"display_rarity", "displayRarity", "display_rarity">>,
       <<"backend_rarity", "backendRarity", "backend_rarity">>,
       <<"name", "name", "name">>,
       <<"short_description", "shortDescription", "short_description">>,
       <<"description", "description", "description">>,
       <<"set", "set", "set">>,
       <<"set_text", "setText", "setText">>,
       <<"series", "series", "series">>,
       <<"has_small_icon", "hasSmallIcon", "has_small_icon">>,
       <<"has_icon", "hasIcon", "has_icon">>,
       <<"has_featured_image", "hasFeaturedImage", "has_featured_image">>,
       <<"has_background_image", "hasBackgroundImage", "has_background_image">>,
       <<"has_cover_art", "hasCoverArt", "has_cover_art">>,
       <<"has_decal", "hasDecal", "has_decal">>,
       <<"has_variants", "hasVariants", "has_variants">>,
       <<"has_gameplay_tags", "hasGameplayTags", "has_gameplay_tags">>,
       <<"gameplay_tag", "gameplayTag", "gameplay_tag">> >>

AsyncFilterTable ==
    << <<"type", "type", "type">>,
       <<"backend_type", "backendType", "backend_type">>,
       <<"rarity", "rarity", "rarity">>,
       <<"backend_rarity", "backendRarity", "backend_rarity">>,
       <<"name", "name", "name">>,
       <<"short_description", "shortDescription", "short_description">>,
       <<"description", "description", "description">>,
       <<"set", "set", "set">>,
       <<"series", "series", "series">>,
       <<"has_small_icon", "hasSmallIcon", "has_small_icon">>,
       <<"has_icon", "hasIcon", "has_icon">>,
       <<"has_featured_image", "hasFeaturedImage", "has_featured_image">>,
       <<"has_background_image", "hasBackgroundImage", "has_background_image">>,
       <<"has_cover_art", "hasCoverArt", "has_cover_art">>,
       <<"has_decal", "hasDecal", "has_decal">>,
       <<"has_variants", "hasVariants", "has_variants">>,
       <<"has_gameplay_tags", "hasGameplayTags", "has_gameplay_tags">>,
       <<"gameplay_tag", "gameplayTag", "gameplay_tag">> >>

\* search_parameters.get(k, default)
KwGet(sp, k, default) == IF k \in DOMAIN sp THEN sp[k] ELSE default

\* the body that the two _parse_search_parameter share, over their filters
ParseSearchParameter(table, sp) ==
    LET language == EnumValue(KwGet(sp, "language", GameLanguage("en")))
        searchLanguage == EnumValue(KwGet(sp, "search_language", GameLanguage("en")))
        matchMethod == EnumValue(KwGet(sp, "match_method", MatchMethod("full")))
        given == {i \in 1..Len(table) : table[i][1] \in DOMAIN sp}
        reads == [i \in 1..Len(table) |->
                     IF i \in given
                     THEN (IF table[i][3] \in DOMAIN sp THEN sp[table[i][3]] ELSE Raise("KeyError"))
                     ELSE None]
    IN FirstRaiseOr(<<language, searchLanguage, matchMethod>> \o reads,
           Obj([k \in {"language", "searchLanguage", "matchMethod"} \cup {table[i][2] : i \in given} |->
                   CASE k = "language" -> language
                     [] k = "searchLanguage" -> searchLanguage
                     [] k = "matchMethod" -> matchMethod
                     [] OTHER -> reads[CHOOSE i \in given : table[i][2] = k]]))

Sync_parse_search_parameter(sp) == ParseSearchParameter(SyncFilterTable, sp)
Async_parse_search_parameter(sp) == ParseSearchParameter(AsyncFilterTable, sp)

LanguageParams(language) == Obj([language |-> EnumValue(language)])

RECURSIVE Join(_, _)
\* sep.join(strs), strings being sequences of characters and sep one token
Join(sep, strs) ==
    IF Len(strs) = 0 THEN << >>
    ELSE IF Len(strs) = 1 THEN strs[1]
    ELSE strs[1] \o <<sep>> \o Join(sep, Tail(strs))

fetch_all_mut_no_none_check(language, response) ==
    LET req == Request(<<"cosmetics/br">>, LanguageParams(language))
    IN IF IsRaise(req.params) THEN Outcome(<< >>, req.params, 0)
       ELSE BrCosmeticList(<<req>>, IF response = None THEN Raise("TypeError") ELSE response)

fetch_all_mut_retry(language, response) ==
    LET req == Request(<<"cosmetics/br">>, LanguageParams(language))
    IN IF IsRaise(req.params) THEN Outcome(<< >>, req.params, 0)
       ELSE IF response = None THEN Outcome(<<req, req>>, None, 0)
       ELSE BrCosmeticList(<<req>>, response)

\* fetch_all of SyncCosmeticsEndpoints and of AsyncCosmeticsEndpoints
fetch_all(language, response) ==
    LET req == Request(<<"cosmetics/br">>, LanguageParams(language))
    IN IF IsRaise(req.params) THEN Outcome(<< >>, req.params, 0)
       ELSE IF response = None THEN Outcome(<<req>>, None, 0)
       ELSE BrCosmeticList(<<req>>, response)

\* search_by_id of both classes; cosmetic_id is the tuple of the ids
search_by_id(cosmetic_id, language, response) ==
    LET params == LanguageParams(language)
        endpoint == <<"cosmetics/br/search/ids", "?id=">> \o cosmetic_id[1] \o
                    Join("&id=", Tail(cosmetic_id))
        req == Request(endpoint, params)
    IN IF IsRaise(params) THEN Outcome(<< >>, params, 0)
       ELSE IF Len(cosmetic_id) < 1 THEN Outcome(<< >>, None, 0)
       ELSE IF response = None THEN Outcome(<<req>>, None, 0)
       ELSE BrCosmeticList(<<req>>, response)

search_by_id_args_mut_aliased(cosmetic_id) ==
    IF Len(cosmetic_id) < 1 THEN cosmetic_id ELSE Tail(cosmetic_id)

\* the caller's ids after search_by_id: cosmetic_ids = list(cosmetic_id) is
\* a new list, and del cosmetic_ids[0] removes the first id of that list
search_by_id_args(cosmetic_id) ==
    LET cosmetic_ids == [i \in 1..Len(cosmetic_id) |-> cosmetic_id[i]]
        deleted == IF Len(cosmetic_ids) < 1 THEN cosmetic_ids ELSE Tail(cosmetic_ids)
    IN cosmetic_id

\* self._parse_search_parameter(**search_parameters) of class cls
ParseOf(cls, sp) ==
    IF cls = "sync" THEN Sync_parse_search_parameter(sp) ELSE Async_parse_search_parameter(sp)

\* search_all of class cls
search_all(cls, sp, response) ==
    LET params == ParseOf(cls, sp)
        req == Request(<<"/cosmetics/br/search/all">>, params)
    IN IF IsRaise(params) THEN Outcome(<< >>, params, 0)
       ELSE IF response = None THEN Outcome(<<req>>, None, 0)
       ELSE BrCosmeticList(<<req>>, response)

\* search_first of class cls
search_first(cls, sp, response) ==
    LET params == ParseOf(cls, sp)
        req == Request(<<"/cosmetics/br/search">>, params)
    IN IF IsRaise(params) THEN Outcome(<< >>, params, 0)
       ELSE IF response = None THEN Outcome(<<req>>, None, 0)
       ELSE LET d == Subscript(response, "data")
            IN Outcome(<<req>>, IF IsRaise(d) THEN d ELSE BrCosmetic_init(d),
                       IF IsRaise(d) THEN 0 ELSE 1)

\* SyncNewsEndpoints.fetch and AsyncNewsEndpoints.fetch_news
news_fetch(language, response) ==
    LET req == Request(<<"news">>, LanguageParams(language))
    IN IF IsRaise(req.params) THEN Outcome(<< >>, req.params, 0)
       ELSE IF response = None THEN Outcome(<<req>>, None, 0)
       ELSE LET d == Subscript(response, "data")
            IN Outcome(<<req>>, IF IsRaise(d) THEN d ELSE News_init(d),
                       IF IsRaise(d) THEN 0 ELSE 1)

\* fetch_by_type of both news classes
news_fetch_by_type(news_type, language, response) ==
    LET params == LanguageParams(language)
        type_value == EnumValue(news_type)
        req == Request(<<"news/", type_value.s>>, params)
    IN IF IsRaise(params) THEN Outcome(<< >>, params, 0)
       ELSE IF IsRaise(type_value) THEN Outcome(<< >>, type_value, 0)
       ELSE IF response = None THEN Outcome(<<req>>, None, 0)
       ELSE LET d == Subscript(response, "data")
            IN Outcome(<<req>>, IF IsRaise(d) THEN d ELSE GameModeNews_init(d),
                       IF IsRaise(d) THEN 0 ELSE 1)

\* fetch of both shop classes
shop_fetch(language, response) ==
    LET req == Request(<<"shop/br">>, LanguageParams(language))
    IN IF IsRaise(req.params) THEN Outcome(<< >>, req.params, 0)
       ELSE IF response = None THEN Outcome(<<req>>, None, 0)
       ELSE LET d == Subscript(response, "data")
            IN Outcome(<<req>>, IF IsRaise(d) THEN d ELSE BrShop_init(d),
                       IF IsRaise(d) THEN 0 ELSE 1)

(***************************************************************************)
(* A cosmetics endpoint operation in two steps, split where it suspends:   *)
(* up to `self._client.http.get(...)`, and from the response on.  frame    *)
(* holds the call's arguments (its locals), self is the endpoint object.   *)
(***************************************************************************)
\* SyncCosmeticsEndpoints.__init__ / AsyncCosmeticsEndpoints.__init__
CosmeticsEndpoints_init(cls, client) ==
    Construct(cls, << <<"_client", client>> >>)

\* the operation of frame run to its end on this response
Handler(frame, response) ==
    CASE frame.name = "fetch_all" -> fetch_all(frame.language, response)
      [] frame.name = "search_by_id" -> search_by_id(frame.cosmetic_id, frame.language, response)
      [] frame.name = "search_all" -> search_all(frame.cls, frame.search_parameters, response)
      [] frame.name = "search_first" -> search_first(frame.cls, frame.search_parameters, response)

Start == [t |-> "start"]
Response(r) == [t |-> "response", response |-> r]

EndpointStep_mut_shared(self, frame, event) ==
    IF event.t = "start"
    THEN LET o == Handler(frame, None)
         IN [self |-> [self EXCEPT !.attrs = [k \in DOMAIN @ \cup {"_frame"} |->
                                                 IF k = "_frame" THEN frame ELSE @[k]]],
             reqs |-> IF o.reqs = << >> THEN << >> ELSE <<o.reqs[1]>>,
             returned |-> o.reqs = << >>,
             value |-> o.value]
    ELSE LET o == Handler(self.attrs["_frame"], event.response)
         IN [self |-> self, reqs |-> Tail(o.reqs), returned |-> TRUE, value |-> o.value]

\* one step of the operation: what it leaves of self, the gets it issues,
\* whether it has returned (or raised) and with what
EndpointStep(self, frame, event) ==
    IF event.t = "start"
    THEN LET o == Handler(frame, None)
         IN [self |-> self,
             reqs |-> IF o.reqs = << >> THEN << >> ELSE <<o.reqs[1]>>,
             returned |-> o.reqs = << >>,
             value |-> o.value]
    ELSE LET o == Handler(frame, event.response)
         IN [self |-> self, reqs |-> Tail(o.reqs), returned |-> TRUE, value |-> o.value]

(***************************************************************************)
(* The aggregation wrappers CosmeticsAll (fortnite_api/all.py) and         *)
(* ShopEntry (fortnite_api/shop.py).                                       *)
(***************************************************************************)
\* [cls(data=item) for item in get_with_fallback(d, key, list)]
CosmeticList(d, key, cls) ==
    LET items == get_with_fallback(d, key, "list")
    IN Comprehension(items, [i \in 1..Len(ListOf(items)) |-> ClassInit(cls, items.l[i])])

\* CosmeticsAll.__init__: one list per category
CosmeticsAll_init(d) ==
    Construct("CosmeticsAll",
        [i \in 1..Len(Categories) |->
            <<Categories[i].attr, CosmeticList(d, Categories[i].key, Categories[i].cls)>>] \o
        << <<"raw_data", d>> >>)

CosmeticsAll_iter_mut_order(self) ==
    self.attrs["br"].l \o self.attrs["tracks"].l \o self.attrs["cars"].l \o
    self.attrs["instruments"].l \o self.attrs["lego"].l \o self.attrs["lego_kits"].l

\* CosmeticsAll.__iter__: the flattened iteration
CosmeticsAll_iter(self) ==
    self.attrs["br"].l \o self.attrs["tracks"].l \o self.attrs["instruments"].l \o
    self.attrs["cars"].l \o self.attrs["lego"].l \o self.attrs["lego_kits"].l

\* CosmeticsAll.__len__
CosmeticsAll_len(self) ==
    Len(self.attrs["br"].l) + Len(self.attrs["tracks"].l) + Len(self.attrs["instruments"].l) +
    Len(self.attrs["cars"].l) + Len(self.attrs["lego"].l) + Len(self.attrs["lego_kits"].l)

\* the cosmetic lists of a shop entry: <<attribute, payload key, class>>
ShopLists ==
    << <<"br_items", "brItems", "CosmeticBr">>,
       <<"tracks", "tracks", "CosmeticTrack">>,
       <<"instruments", "instruments", "CosmeticInstrument">>,
       <<"cars", "cars", "CosmeticCar">>,
       <<"lego_kits", "legoKits", "CosmeticLegoKit">> >>

\* ShopEntry.__init__: the per-category cosmetic references
ShopEntry_init(d) ==
    Construct("ShopEntry",
        [i \in 1..Len(ShopLists) |->
            <<ShopLists[i][1], CosmeticList(d, ShopLists[i][2], ShopLists[i][3])>>] \o
        << <<"raw_data", d>> >>)

RECURSIVE DedupById(_)
\* seq without the items whose id an earlier item has
DedupById(seq) ==
    IF Len(seq) = 0 THEN << >>
    ELSE LET front == DedupById(SubSeq(seq, 1, Len(seq) - 1))
             last == seq[Len(seq)]
         IN IF \E i \in 1..Len(front) : Hashable_eq(front[i], last) THEN front
            ELSE Append(front, last)

ShopEntry_cosmetics_mut_merge(self) ==
    DedupById(self.attrs["br_items"].l \o self.attrs["tracks"].l \o self.attrs["instruments"].l \o
              self.attrs["cars"].l \o self.attrs["lego_kits"].l)

\* the combined cosmetics of a shop entry:
\* entry.br_items + entry.tracks + entry.instruments + entry.cars + entry.lego_kits
ShopEntry_cosmetics(self) ==
    self.attrs["br_items"].l \o self.attrs["tracks"].l \o self.attrs["instruments"].l \o
    self.attrs["cars"].l \o self.attrs["lego_kits"].l

(***************************************************************************)
(* The payloads the constructors are applied to.  A payload gives every    *)
(* key of its template a value or Absent; it differs from the full         *)
(* template (every key present and well-formed) or from the minimal one    *)
(* (only the required keys) in at most MaxEdits keys.                      *)
(***************************************************************************)
T1 == "2023-11-01T00:00:00+00:00"
T1b == "2023-11-01T01:00:00+01:00"
T2 == "2024-02-03T10:00:00+00:00"
T0 == "2022-06-05T00:00:00+00:00"

TypeObj == Obj([value |-> Str("outfit"), displayValue |-> Str("Outfit"),
                backendValue |-> Str("AthenaCharacter")])
RarityObj == Obj([value |-> Str("epic"), displayValue |-> Str("Epic"),
                  backendValue |-> Str("EFortRarity::Epic")])
SeriesObj == Obj([value |-> Str("Icon Series"), backendValue |-> Str("CreatorCollabSeries"),
                  image |-> Str("https://img/series.png"), colors |-> List(<<Str("ff0000")>>)])
SetObj == Obj([value |-> Str("Storm"), text |-> Str("Part of the Storm set."),
               backendValue |-> Str("StormSet")])
IntroObj == Obj([chapter |-> Str("2"), season |-> Str("5"),
                 text |-> Str("Introduced in Chapter 2, Season 5."),
                 backendValue |-> [t |-> "int", n |-> 15]])
ImagesObj == Obj([featured |-> Str("https://img/featured.png"),
                  lego |-> Str("https://img/lego.png"),
                  other |-> Obj([background |-> Str("https://img/bg.png"),
                                 decal |-> Str("https://img/decal.png")])])
OptionObj == Obj([tag |-> Str("Stage1"), name |-> Str("DEFAULT"),
                  image |-> Str("https://img/opt.png")])
VariantObj == Obj([channel |-> Str("Material"), type |-> Str("STYLE"),
                   options |-> List(<<OptionObj>>)])

\* d without key k
Without(d, k) == Obj([j \in DOMAIN d.o \ {k} |-> d.o[j]])

NestedKeys == {"type", "rarity", "series", "set", "introduction", "images"}
ListKeys == {"variants", "searchTags", "gameplayTags", "metaTags", "shopHistory"}
ScalarKeys == {"showcaseVideo", "dynamicPakId", "displayAssetPath", "definitionPath", "path"}
RequiredKeys == {"id", "added", "name", "description", "vehicleId"}

BrKeys == (RequiredKeys \ {"vehicleId"}) \cup NestedKeys \cup ListKeys \cup ScalarKeys
CarKeys == RequiredKeys \cup {"type", "rarity", "images", "series", "gameplayTags", "path",
                              "showcaseVideo", "shopHistory"}

\* the well-formed value of each key
FullValue(k) ==
    CASE k = "id" -> Str("CID_A")
      [] k = "added" -> Str(T1)
      [] k = "name" -> Str("Renegade")
      [] k = "description" -> Str("Rare outfit")
      [] k = "vehicleId" -> Str("Vehicle_1")
      [] k = "type" -> TypeObj
      [] k = "rarity" -> RarityObj
      [] k = "series" -> SeriesObj
      [] k = "set" -> SetObj
      [] k = "introduction" -> IntroObj
      [] k = "images" -> ImagesObj
      [] k = "variants" -> List(<<VariantObj>>)
      [] k = "searchTags" -> List(<<Str("tagB"), Str("tagA")>>)
      [] k = "gameplayTags" -> List(<<Str("Cosmetics.Source.ItemShop")>>)
      [] k = "metaTags" -> List(<<Str("meta")>>)
      [] k = "shopHistory" -> List(<<Str(T2), Str(T0), Str(T1), Str(T2)>>)
      [] k = "showcaseVideo" -> Str("dQw4w9WgXcQ")
      [] k = "dynamicPakId" -> Str("pak1001")
      [] k = "displayAssetPath" -> Str("/Game/DA")
      [] k = "definitionPath" -> Str("/Game/Def")
      [] k = "path" -> Str("/Game/Path")

\* a present subtree that lacks one of its required keys
MalformedValue(k) ==
    CASE k = "type" -> Without(TypeObj, "displayValue")
      [] k = "rarity" -> Without(RarityObj, "backendValue")
      [] k = "series" -> Without(SeriesObj, "value")
      [] k = "set" -> Without(SetObj, "text")
      [] k = "introduction" -> Without(IntroObj, "season")
      [] k = "images" -> Without(Without(ImagesObj, "featured"), "other")

\* the values a key takes in the payloads of the model
Alt(k) ==
    {FullValue(k), Absent} \cup
    (CASE k = "id" -> {Str("CID_B")}
       [] k = "name" -> {Str("Recon Expert")}
       [] k = "added" -> {Str(T1b), Str(T2), Str(MalformedTime)}
       [] k \in NestedKeys -> {None, EmptyObj, MalformedValue(k)}
       [] k = "shopHistory" -> {None, EmptyList, List(<<Str(T1), Str(MalformedTime)>>)}
       [] k \in ListKeys -> {None, EmptyList}
       [] k \in ScalarKeys -> {None, Str("")}
       [] OTHER -> {})

FullTemplate(keys) == [k \in keys |-> FullValue(k)]
MinimalTemplate(keys) == [k \in keys |-> IF k \in RequiredKeys THEN FullValue(k) ELSE Absent]

\* an edit <<k, v>> gives key k the value v
EditsOf(keys) == UNION {{<<k, v>> : v \in Alt(k)} : k \in keys}

RECURSIVE EditSets(_, _)
\* the sets of at most n of the edits
EditSets(edits, n) ==
    IF n = 0 THEN {{}}
    ELSE LET prev == EditSets(edits, n - 1)
         IN prev \cup {es \cup {e} : es \in {x \in prev : Cardinality(x) = n - 1}, e \in edits}

\* the payload that differs from base by the edits es (the edit of a key
\* that es edits twice is not applied)
Edited(base, es) ==
    MkObj([k \in DOMAIN base |->
              IF \E e \in es : e[1] = k
              THEN (CHOOSE e \in es : e[1] = k)[2]
              ELSE base[k]])

OneEditPerKey(es) == \A e1, e2 \in es : e1[1] = e2[1] => e1 = e2

\* data is a payload of the keys at most n edits away from a template
IsPayload(d, keys, n) ==
    \E es \in {x \in EditSets(EditsOf(keys), n) : OneEditPerKey(x)} :
        \/ d = Edited(FullTemplate(keys), es)
        \/ d = Edited(MinimalTemplate(keys), es)

(***************************************************************************)
(* The payloads of NewCosmetics.  A flat key is <<k>> for a top-level key  *)
(* and <<m, k>> for key k of the map m.                                    *)
(***************************************************************************)
MaxNewEdits == 2

PresentMap == [t |-> "map"]
RawMaps == {"hashes", "lastAdditions", "items"}
InternalKeys == {Categories[i].key : i \in 1..Len(Categories)}
MapKeys(m) == IF m = "items" THEN InternalKeys ELSE InternalKeys \cup {"all"}
NewFlatKeys ==
    {<<"build">>, <<"previousBuild">>, <<"date">>} \cup {<<m>> : m \in RawMaps} \cup
    UNION {{<<m, k>> : k \in MapKeys(m)} : m \in RawMaps}

HashTable ==
    ("all" :> "h_all") @@ ("br" :> "h_br") @@ ("tracks" :> "h_tracks") @@
    ("instruments" :> "h_instruments") @@ ("cars" :> "h_cars") @@ ("lego" :> "h_lego") @@
    ("legoKits" :> "h_legoKits")

AdditionTable ==
    ("all" :> "2024-03-07T00:00:00+00:00") @@ ("br" :> "2024-03-01T00:00:00+00:00") @@
    ("tracks" :> "2024-03-02T00:00:00+00:00") @@ ("instruments" :> "2024-03-03T00:00:00+00:00") @@
    ("cars" :> "2024-03-04T00:00:00+00:00") @@ ("lego" :> "2024-03-05T00:00:00+00:00") @@
    ("legoKits" :> "2024-03-06T00:00:00+00:00")

ItemIdTable ==
    ("br" :> "CID_br") @@ ("tracks" :> "SID_track") @@ ("instruments" :> "IID_instrument") @@
    ("cars" :> "VID_car") @@ ("lego" :> "LID_lego") @@ ("legoKits" :> "KID_kit")

\* an item of category k as upstream delivers it
ItemOf(k, time) ==
    MkObj([j \in {"id", "added", "name", "description", "vehicleId"} |->
              CASE j = "id" -> Str(ItemIdTable[k])
                [] j = "added" -> Str(time)
                [] j = "vehicleId" -> IF k = "cars" THEN Str("Vehicle_1") ELSE Absent
                [] OTHER -> FullValue(j)])

NewFullValue(fk) ==
    CASE fk = <<"build">> -> Str("++Fortnite+Release-29.10-CL-1")
      [] fk = <<"previousBuild">> -> Str("++Fortnite+Release-29.01-CL-0")
      [] fk = <<"date">> -> Str(T2)
      [] Len(fk) = 1 -> PresentMap
      [] fk[1] = "hashes" -> Str(HashTable[fk[2]])
      [] fk[1] = "lastAdditions" -> Str(AdditionTable[fk[2]])
      [] fk[1] = "items" ->
            IF fk[2] = "br" THEN List(<<ItemOf("br", T2), ItemOf("br", T0)>>)
            ELSE List(<<ItemOf(fk[2], T1)>>)

NewAlt(fk) ==
    {NewFullValue(fk), Absent} \cup
    (CASE fk = <<"date">> -> {Str(MalformedTime)}
       [] Len(fk) = 1 /\ fk[1] \in RawMaps -> {None}
       [] Len(fk) = 1 -> {}
       [] fk[1] = "hashes" -> {None}
       [] fk[1] = "lastAdditions" -> {None, Str(""), Str(MalformedTime)}
       [] fk[1] = "items" -> {None, EmptyList, List(<<Without(ItemOf(fk[2], T1), "added")>>)})

NewEdits == UNION {{<<fk, v>> : v \in NewAlt(fk)} : fk \in NewFlatKeys}
NewTemplate == [fk \in NewFlatKeys |-> NewFullValue(fk)]

\* the nested payload of a flat assignment f
NewPayload(f) ==
    MkObj([k \in {"build", "previousBuild", "date"} \cup RawMaps |->
              IF f[<<k>>] = PresentMap
              THEN MkObj([j \in MapKeys(k) |-> f[<<k, j>>]])
              ELSE f[<<k>>]])

NewPayloadOf(es) ==
    NewPayload([fk \in NewFlatKeys |->
                   IF \E e \in es : e[1] = fk THEN (CHOOSE e \in es : e[1] = fk)[2]
                   ELSE NewTemplate[fk]])

\* d with the entries of the internal keys k1 and k2 exchanged in the three raw maps
SwapEntries(d, k1, k2) ==
    Obj([m \in DOMAIN d.o |->
            IF m \in RawMaps /\ d.o[m].t = "obj"
            THEN MkObj([j \in DOMAIN d.o[m].o \cup {k1, k2} |->
                           LET src == IF j = k1 THEN k2 ELSE IF j = k2 THEN k1 ELSE j
                           IN IF src \in DOMAIN d.o[m].o THEN d.o[m].o[src] ELSE Absent])
            ELSE d.o[m]])

(***************************************************************************)
(* The caller: the payload is chosen, then the constructor runs as one     *)
(* step.  data is the caller's payload object, ret what the call returned  *)
(* or raised, http the transport requests the call issued.                 *)
(***************************************************************************)
Pending == [t |-> "pending"]

InitCosmetic ==
    /\ pc = "call"
    /\ ret = Pending
    /\ http = << >>
    /\ \/ op = "CosmeticBr" /\ IsPayload(data, BrKeys, MaxEdits)
       \/ op = "CosmeticCar" /\ IsPayload(data, CarKeys, MaxEdits)
       \/ /\ op = "compare"
          /\ \E x, y \in {<<keys, e>> : keys \in {BrKeys, CarKeys}, e \in EditsOf(BrKeys \cup CarKeys)} :
                /\ x[2][1] \in x[1] /\ y[2][1] \in y[1]
                /\ data = List(<<Edited(FullTemplate(x[1]), {x[2]}),
                                 Edited(FullTemplate(y[1]), {y[2]})>>)

ConstructBr ==
    /\ pc = "call" /\ op = "CosmeticBr"
    /\ ret' = CosmeticBr_init(data)
    /\ pc' = "done"
    /\ UNCHANGED <<op, data, http>>

ConstructCar ==
    /\ pc = "call" /\ op = "CosmeticCar"
    /\ ret' = CosmeticCar_init(data)
    /\ pc' = "done"
    /\ UNCHANGED <<op, data, http>>

\* the variant constructor of a payload: a car payload has a vehicleId
VariantOf(d) == IF "vehicleId" \in DOMAIN d.o THEN CosmeticCar_init(d) ELSE CosmeticBr_init(d)

\* a == b, a != b and hash(a) == hash(b) of two constructed cosmetics
Compare ==
    /\ pc = "call" /\ op = "compare"
    /\ LET a == VariantOf(data.l[1])
           b == VariantOf(data.l[2])
       IN ret' = IF IsRaise(a) THEN a
                 ELSE IF IsRaise(b) THEN b
                 ELSE [t |-> "compared", a |-> a, b |-> b,
                       eq |-> Hashable_eq(a, b),
                       ne |-> ~Hashable_eq(a, b),
                       hash_eq |-> (Hashable_hash(a) = Hashable_hash(b))]
    /\ pc' = "done"
    /\ UNCHANGED <<op, data, http>>

NextCosmetic == ConstructBr \/ ConstructCar \/ Compare

SpecCosmetic == InitCosmetic /\ [][NextCosmetic]_vars

(***************************************************************************)
(* Claims about the cosmetic constructors.                                 *)
(***************************************************************************)
\* the attribute that holds payload key k
SlotOf(k) ==
    CASE k = "searchTags" -> "search_tags"
      [] k = "gameplayTags" -> "gameplay_tags"
      [] k = "metaTags" -> "meta_tags"
      [] k = "showcaseVideo" -> IF op = "CosmeticCar" THEN "showcase_video_id" ELSE "showcase_video"
      [] k = "dynamicPakId" -> "dynamic_pak_id"
      [] k = "displayAssetPath" -> "display_asset_path"
      [] k = "definitionPath" -> "definition_path"
      [] k = "shopHistory" -> "shop_history"
      [] k = "vehicleId" -> "vehicle_id"
      [] OTHER -> k

KeysOfOp == IF op = "CosmeticCar" THEN CarKeys ELSE BrKeys
ConstructorDone == pc = "done" /\ op \in {"CosmeticBr", "CosmeticCar"}
HasRequiredKeys == (KeysOfOp \cap RequiredKeys) \subseteq DOMAIN data.o

\* C1: when the payload of a CosmeticBr or CosmeticCar has its required keys,
\* no omitted optional key is where construction raises; the attribute of
\* every omitted scalar or object key is None and that of every omitted
\* collection key is the empty list, whatever other optional keys are
\* present; the car's showcase_video is None without a showcaseVideo key.
C1_OmittedOptionalDefaults ==
    (ConstructorDone /\ HasRequiredKeys) =>
        \A k \in (KeysOfOp \ RequiredKeys) \ DOMAIN data.o :
            /\ IsRaise(ret) => ret.at # SlotOf(k)
            /\ SlotOf(k) \in DOMAIN ret.attrs =>
                  ret.attrs[SlotOf(k)] = IF k \in ListKeys THEN EmptyList ELSE None
            /\ (op = "CosmeticCar" /\ k = "showcaseVideo" /\ ~IsRaise(ret)) =>
                  Car_showcase_video(ret) = None

\* a CosmeticBr built from a payload that omits an object key and a
\* collection key and keeps the other optional keys
C1_Witness ==
    /\ ConstructorDone /\ op = "CosmeticBr" /\ ~IsRaise(ret)
    /\ "type" \notin DOMAIN data.o /\ "shopHistory" \notin DOMAIN data.o
    /\ "rarity" \in DOMAIN data.o /\ "variants" \in DOMAIN data.o
    /\ ret.attrs["type"] = None /\ ret.attrs["shop_history"] = EmptyList

\* C3: raw_data of every successfully constructed cosmetic is the payload it
\* was constructed from, with the same keys and values.
C3_RawDataIsPayload ==
    (ConstructorDone /\ ~IsRaise(ret)) => ret.attrs["raw_data"] = data

\* a CosmeticCar built from a payload with nested subtrees
C3_Witness ==
    /\ ConstructorDone /\ op = "CosmeticCar" /\ ~IsRaise(ret)
    /\ {"images", "series", "shopHistory"} \subseteq DOMAIN data.o
    /\ DOMAIN ret.attrs["raw_data"].o = DOMAIN data.o

\* C4: two cosmetics of payloads with the same id are equal, not unequal, and
\* have the same hash, whatever their other fields; two cosmetics of payloads
\* with different ids are unequal.
C4_EqualityById ==
    (pc = "done" /\ op = "compare" /\ ret.t = "compared") =>
        LET ida == Get(data.l[1], "id")
            idb == Get(data.l[2], "id")
        IN /\ ida = idb => (ret.eq /\ ~ret.ne /\ ret.hash_eq)
           /\ ida # idb => (~ret.eq /\ ret.ne)

\* two instances with the same id and different names that compare equal
C4_Witness ==
    /\ pc = "done" /\ op = "compare" /\ ret.t = "compared"
    /\ data.l[1].o["id"] = data.l[2].o["id"]
    /\ ret.a.attrs["name"] # ret.b.attrs["name"]
    /\ ret.eq

\* C13: a CosmeticBr or CosmeticCar payload that lacks a required key (id,
\* added, name, description, and vehicleId for the car) makes the
\* constructor raise, and no attribute of a missing required key has been
\* given a value.
C13_MissingRequiredRaises ==
    (ConstructorDone /\ ~HasRequiredKeys) =>
        /\ IsRaise(ret)
        /\ \A k \in (KeysOfOp \cap RequiredKeys) \ DOMAIN data.o :
              SlotOf(k) \notin DOMAIN ret.attrs

\* a car payload that has every key but vehicleId: KeyError at vehicle_id
C13_Witness ==
    /\ ConstructorDone /\ op = "CosmeticCar"
    /\ DOMAIN data.o = CarKeys \ {"vehicleId"}
    /\ IsRaise(ret) /\ ret.exc = "KeyError" /\ ret.at = "vehicle_id"

\* the keys each leaf constructor reads with data[...]
LeafRequired(k) ==
    CASE k = "type" -> {"value", "displayValue", "backendValue"}
      [] k = "rarity" -> {"value", "displayValue", "backendValue"}
      [] k = "series" -> {"value", "backendValue"}
      [] k = "set" -> {"value", "text", "backendValue"}
      [] k = "introduction" -> {"chapter", "season", "text", "backendValue"}

SubtreeKeys == {"type", "rarity", "series", "set", "introduction"}

\* the subtree keys present in the payload with an object that lacks a key
\* its leaf requires
MalformedSubtrees ==
    {k \in SubtreeKeys \cap KeysOfOp \cap DOMAIN data.o :
        data.o[k].t = "obj" /\ ~(LeafRequired(k) \subseteq DOMAIN data.o[k].o)}

\* C14: when a subtree key (type, rarity, series, set, introduction) is
\* present with an object that lacks a required key of its leaf, the empty
\* object included, construction of the cosmetic raises.
C14_PresentSubtreeRaises ==
    (ConstructorDone /\ MalformedSubtrees # {}) => IsRaise(ret)

\* the declared record type of an optional object-typed field
RecordType ==
    [type |-> "CosmeticTypeInfo", rarity |-> "CosmeticRarityInfo",
     series |-> "CosmeticSeriesInfo", set |-> "CosmeticBrSet",
     introduction |-> "CosmeticBrIntroduction", images |-> "CosmeticImages",
     image |-> "Asset", featured |-> "Asset", lego |-> "Asset"]

\* every object-typed field of record x is None or of its declared type
ObjectFieldsTyped(x) ==
    \A k \in DOMAIN RecordType \cap DOMAIN x.attrs :
        x.attrs[k] = None \/ x.attrs[k].t = RecordType[k]

\* C30: in every constructed CosmeticBr, CosmeticCar, CosmeticSeriesInfo
\* and CosmeticImages each optional object-typed field (type, rarity,
\* series, set, introduction, images, the series image, featured, lego) is
\* None or an instance of its declared record type; for no payload value,
\* the empty object included, does the field hold the raw JSON value.
C30_ObjectFieldsTyped ==
    (ConstructorDone /\ ~IsRaise(ret)) =>
        /\ ObjectFieldsTyped(ret)
        /\ \A k \in {"series", "images"} \cap DOMAIN ret.attrs :
              (ret.attrs[k] # None /\ ret.attrs[k].t = RecordType[k]) =>
                  ObjectFieldsTyped(ret.attrs[k])

\* the slots of the base construction step
BaseSlots == {"id", "added", "raw_data"}

\* C16: when a variant constructor raises at a variant-specific field, id,
\* added and raw_data of the object under construction are set, to the
\* payload's id, its parsed added and the payload; when it raises in the
\* base step, no variant-specific field is set.
C16_BaseStepFirst ==
    (ConstructorDone /\ IsRaise(ret)) =>
        IF ret.at \in BaseSlots \cup {"_http"}
        THEN DOMAIN ret.attrs \subseteq BaseSlots \cup {"_http"}
        ELSE /\ BaseSlots \subseteq DOMAIN ret.attrs
             /\ ret.attrs["id"] = data.o["id"]
             /\ ret.attrs["added"] = parse_time(data.o["added"])
             /\ ret.attrs["raw_data"] = data

\* a car whose rarity subtree is malformed: the failure is at rarity, after
\* the base slots and the variant's required fields
C16_Witness ==
    /\ ConstructorDone /\ op = "CosmeticCar" /\ IsRaise(ret)
    /\ ret.at = "rarity"
    /\ ret.attrs["id"] = Str("CID_A") /\ ret.attrs["raw_data"] = data
    /\ "vehicle_id" \in DOMAIN ret.attrs

\* C17: shop_history of a constructed CosmeticBr or CosmeticCar is as long
\* as the payload's shopHistory list, and its i-th element is the parsed
\* i-th entry of the payload.
C17_ShopHistoryOrder ==
    (ConstructorDone /\ ~IsRaise(ret) /\ "shopHistory" \in DOMAIN data.o
        /\ data.o["shopHistory"].t = "list") =>
        /\ Len(ret.attrs["shop_history"].l) = Len(data.o["shopHistory"].l)
        /\ \A i \in 1..Len(data.o["shopHistory"].l) :
              ret.attrs["shop_history"].l[i] = parse_time(data.o["shopHistory"].l[i])

\* a history that is not in chronological order and has an instant twice
C17_Witness ==
    /\ ConstructorDone /\ op = "CosmeticBr" /\ ~IsRaise(ret)
    /\ Len(ret.attrs["shop_history"].l) = 4
    /\ ret.attrs["shop_history"].l[1].epoch > ret.attrs["shop_history"].l[2].epoch
    /\ ret.attrs["shop_history"].l[1] = ret.attrs["shop_history"].l[4]
    /\ ret.attrs["shop_history"].l[2].epoch < ret.attrs["shop_history"].l[3].epoch

(***************************************************************************)
(* NewCosmetics: construction, and construction before and after the raw   *)
(* entries of two categories are exchanged.                                *)
(***************************************************************************)
InitNew ==
    /\ pc = "call"
    /\ ret = Pending
    /\ http = << >>
    /\ \/ /\ op = "NewCosmetics"
          /\ \E es \in {x \in EditSets(NewEdits, MaxNewEdits) : OneEditPerKey(x)} :
                data = NewPayloadOf(es)
       \/ /\ op = "swap"
          /\ \E es \in {x \in EditSets(NewEdits, 1) : OneEditPerKey(x)}, k1, k2 \in InternalKeys :
                /\ k1 # k2
                /\ data = [t |-> "swap", payload |-> NewPayloadOf(es), k1 |-> k1, k2 |-> k2]

ConstructNew ==
    /\ pc = "call" /\ op = "NewCosmetics"
    /\ ret' = NewCosmetics_init(data)
    /\ pc' = "done"
    /\ UNCHANGED <<op, data, http>>

ConstructSwapped ==
    /\ pc = "call" /\ op = "swap"
    /\ LET before == NewCosmetics_init(data.payload)
           after == NewCosmetics_init(SwapEntries(data.payload, data.k1, data.k2))
       IN ret' = IF IsRaise(before) THEN before
                 ELSE IF IsRaise(after) THEN after
                 ELSE [t |-> "swapped", before |-> before, after |-> after]
    /\ pc' = "done"
    /\ UNCHANGED <<op, data, http>>

NextNew == ConstructNew \/ ConstructSwapped

SpecNew == InitNew /\ [][NextNew]_vars

(***************************************************************************)
(* Claims about NewCosmetics.                                              *)
(***************************************************************************)
\* the payloads that the cosmetics of a list were built from
RawOf(items) == [i \in 1..Len(items.l) |-> items.l[i].attrs["raw_data"]]

Category(attr) == Categories[CHOOSE i \in 1..Len(Categories) : Categories[i].attr = attr]
CategoryOfKey(k) == Categories[CHOOSE i \in 1..Len(Categories) : Categories[i].key = k]
CategoryAttrs == {Categories[i].attr : i \in 1..Len(Categories)}

\* the category attribute nc shows the entries that raw holds under key k
ShowsEntriesOf(nc, raw, k) ==
    /\ nc.attrs["hash"] = raw.o["hashes"].o[k]
    /\ nc.attrs["last_addition"] =
          IF Truthy(raw.o["lastAdditions"].o[k])
          THEN Datetime(TimeTable[raw.o["lastAdditions"].o[k].s])
          ELSE None
    /\ RawOf(nc.attrs["items"]) =
          IF Truthy(raw.o["items"].o[k]) THEN raw.o["items"].o[k].l ELSE << >>

\* C2: every category of a constructed NewCosmetics shows the hash, the
\* last addition and the items (as payloads) that the three raw maps hold
\* under that category's one internal key; and when the raw entries of two
\* categories are exchanged in all three maps and construction succeeds
\* before and after, each of the two categories shows after the exchange the
\* hash, last addition and item payloads the other showed before, while the
\* other four categories show what they showed before.
C2_SameKeyNoDrift ==
    /\ (pc = "done" /\ op = "NewCosmetics" /\ ~IsRaise(ret)) =>
          \A a \in CategoryAttrs : ShowsEntriesOf(ret.attrs[a], data, Category(a).key)
    /\ (pc = "done" /\ op = "swap" /\ ~IsRaise(ret)) =>
          \A a \in CategoryAttrs :
              LET k == Category(a).key
                  from == IF k = data.k1 THEN data.k2 ELSE IF k = data.k2 THEN data.k1 ELSE k
                  was == ret.before.attrs[CategoryOfKey(from).attr]
                  now == ret.after.attrs[a]
              IN /\ now.attrs["hash"] = was.attrs["hash"]
                 /\ now.attrs["last_addition"] = was.attrs["last_addition"]
                 /\ RawOf(now.attrs["items"]) = RawOf(was.attrs["items"])
                 /\ now.attrs["type"] = Enum("CosmeticType", Category(a).type)

\* the entries of br and tracks exchanged: tracks shows the hash, last
\* addition and two items that br showed
C2_Witness ==
    /\ pc = "done" /\ op = "swap" /\ ~IsRaise(ret)
    /\ {data.k1, data.k2} = {"br", "tracks"}
    /\ ret.before.attrs["br"].attrs["hash"] = Str("h_br")
    /\ ret.after.attrs["tracks"].attrs["hash"] = Str("h_br")
    /\ ret.after.attrs["tracks"].attrs["last_addition"] = Datetime(301)
    /\ Len(ret.after.attrs["tracks"].attrs["items"].l) = 2

\* what each attribute of NewCosmetics is to carry:
\* <<attribute, category type, internal key, class of the items>>
Bindings ==
    {<<"br", "BR", "br", "CosmeticBr">>,
     <<"tracks", "TRACKS", "tracks", "CosmeticTrack">>,
     <<"instruments", "INSTRUMENTS", "instruments", "CosmeticInstrument">>,
     <<"cars", "CARS", "cars", "CosmeticCar">>,
     <<"lego", "LEGO", "lego", "CosmeticLego">>,
     <<"lego_kits", "LEGO_KITS", "legoKits", "CosmeticLegoKit">>}

\* the list the raw items map holds under internal key k (nothing when null)
RawItems(k) == IF Truthy(data.o["items"].o[k]) THEN data.o["items"].o[k].l ELSE << >>

\* C21: in every constructed NewCosmetics each of the six attributes carries
\* its own category type, items of its own cosmetic class, and the items and
\* the hash that the raw maps hold under its own internal key (legoKits for
\* lego_kits).
C21_CategoryBindings ==
    (pc = "done" /\ op = "NewCosmetics" /\ ~IsRaise(ret)) =>
        \A b \in Bindings :
            /\ b[1] \in DOMAIN ret.attrs
            /\ ret.attrs[b[1]].attrs["type"] = Enum("CosmeticType", b[2])
            /\ \A i \in 1..Len(ret.attrs[b[1]].attrs["items"].l) :
                  ret.attrs[b[1]].attrs["items"].l[i].t = b[4]
            /\ RawOf(ret.attrs[b[1]].attrs["items"]) = RawItems(b[3])
            /\ ret.attrs[b[1]].attrs["hash"] = data.o["hashes"].o[b[3]]

\* every category has items; those of lego_kits are the kit payloads
C21_Witness ==
    /\ pc = "done" /\ op = "NewCosmetics" /\ ~IsRaise(ret)
    /\ \A b \in Bindings : Len(ret.attrs[b[1]].attrs["items"].l) >= 1
    /\ ret.attrs["lego_kits"].attrs["items"].l[1].t = "CosmeticLegoKit"
    /\ ret.attrs["lego_kits"].attrs["items"].l[1].attrs["id"] = Str("KID_kit")
    /\ ret.attrs["lego"].attrs["items"].l[1].attrs["id"] = Str("LID_lego")

\* C24: for each category of a constructed NewCosmetics, last_addition is
\* None exactly when the raw lastAdditions entry is null or the empty string
\* and otherwise the parsed entry; hash is the raw hashes entry as it is;
\* items has one cosmetic per element of the raw items entry, in its order.
C24_CategoryFields ==
    (pc = "done" /\ op = "NewCosmetics" /\ ~IsRaise(ret)) =>
        \A b \in Bindings :
            LET nc == ret.attrs[b[1]]
                raw_addition == data.o["lastAdditions"].o[b[3]]
            IN /\ (nc.attrs["last_addition"] = None) <=> (raw_addition \in {None, Str("")})
               /\ raw_addition \notin {None, Str("")} =>
                     nc.attrs["last_addition"] = parse_time(raw_addition)
               /\ nc.attrs["hash"] = data.o["hashes"].o[b[3]]
               /\ Len(nc.attrs["items"].l) = Len(RawItems(b[3]))
               /\ \A i \in 1..Len(RawItems(b[3])) :
                     nc.attrs["items"].l[i].attrs["raw_data"] = RawItems(b[3])[i]

\* cars has a null hash and an empty last addition; br has two items in
\* the payload's order
C24_Witness ==
    /\ pc = "done" /\ op = "NewCosmetics" /\ ~IsRaise(ret)
    /\ data.o["hashes"].o["cars"] = None /\ data.o["lastAdditions"].o["cars"] = Str("")
    /\ ret.attrs["cars"].attrs["hash"] = None
    /\ ret.attrs["cars"].attrs["last_addition"] = None
    /\ ret.attrs["br"].attrs["last_addition"] = Datetime(301)
    /\ Len(ret.attrs["br"].attrs["items"].l) = 2
    /\ ret.attrs["br"].attrs["items"].l[1].attrs["added"] = Datetime(200)

\* internal key k is absent from raw map m of the payload
KeyAbsent(d, m, k) ==
    \/ m \notin DOMAIN d.o
    \/ d.o[m].t # "obj"
    \/ k \notin DOMAIN d.o[m].o

\* C8: NewCosmetics construction raises, and returns no object, whenever the
\* internal key of one of the six categories is absent from one of the raw
\* maps hashes, lastAdditions and items, also when the category has no items.
C8_MissingCategoryKeyRaises ==
    (pc = "done" /\ op = "NewCosmetics") =>
        ((\E m \in RawMaps, k \in InternalKeys : KeyAbsent(data, m, k)) => IsRaise(ret))

\* legoKits has an empty item list and no entry in hashes: construction raises
C8_Witness ==
    /\ pc = "done" /\ op = "NewCosmetics" /\ IsRaise(ret)
    /\ "hashes" \in DOMAIN data.o /\ data.o["hashes"].t = "obj"
    /\ "legoKits" \notin DOMAIN data.o["hashes"].o
    /\ ~KeyAbsent(data, "items", "legoKits")
    /\ data.o["items"].o["legoKits"] = EmptyList
    /\ ret.exc = "KeyError" /\ ret.at = "lego_kits"

(***************************************************************************)
(* AES: construction of the key record.                                    *)
(***************************************************************************)
MaxBuildLen == 8

BuildAlphabet == {"1", "2", ".", "-"}
\* "++Fortnite+Release-24.10-CL-1"
ExampleBuild ==
    Chars(<<"+", "+", "F", "o", "r", "t", "n", "i", "t", "e", "+", "R", "e", "l", "e", "a", "s",
            "e", "-", "2", "4", ".", "1", "0", "-", "C", "L", "-", "1">>)
DynamicKeyObj == Obj([pakFilename |-> Str("pakchunk1001.pak"), pakGuid |-> Str("GUID1"),
                      key |-> Str("0xDEF")])

AESValues(k) ==
    CASE k = "mainKey" -> {Str("0xABC"), Str("q80="), None, Absent}
      [] k = "build" -> {ExampleBuild, Chars(<< >>), Chars(<<"R", "e", "l">>), None, Absent}
      [] k = "updated" -> {Str(T1), Str(T1b), Str(MalformedTime), None, Absent}
      [] k = "dynamicKeys" -> {EmptyList, List(<<DynamicKeyObj>>), List(<<EmptyObj, DynamicKeyObj>>),
                               None, Absent}

AESKeys == {"mainKey", "build", "updated", "dynamicKeys"}

\* the payloads of the records that are compared: two key formats of the
\* main key, two builds
ComparedPayloads ==
    {Obj([mainKey |-> m, build |-> b, updated |-> Str(T1), dynamicKeys |-> EmptyList]) :
        m \in {Str("0xABC"), Str("q80=")},
        b \in {ExampleBuild, Chars(<<"v", "2", "4", ".", "2", "0">>)}}

InitAES ==
    /\ pc = "call"
    /\ ret = Pending
    /\ http = << >>
    /\ \/ op = "AES_compare" /\ \E p1, p2 \in ComparedPayloads : data = List(<<p1, p2>>)
       \/ op = "AES" /\ \E n \in 0..MaxBuildLen : \E b \in [1..n -> BuildAlphabet] :
             data = Obj([mainKey |-> Str("0xABC"), build |-> Chars(b),
                         updated |-> Str(T1), dynamicKeys |-> EmptyList])
       \/ op = "AES" /\ \E m \in AESValues("mainKey"), b \in AESValues("build"),
             u \in AESValues("updated"), k \in AESValues("dynamicKeys") :
             data = MkObj([j \in AESKeys |->
                              CASE j = "mainKey" -> m [] j = "build" -> b
                                [] j = "updated" -> u [] j = "dynamicKeys" -> k])

ConstructAES ==
    /\ pc = "call" /\ op = "AES"
    /\ ret' = AES_init(data)
    /\ pc' = "done"
    /\ UNCHANGED <<op, data, http>>

\* test_sync_aes: two records are built from two responses and compared
CompareAES ==
    /\ pc = "call" /\ op = "AES_compare"
    /\ LET a == Ref(1, AES_init(data.l[1]))
           b == Ref(2, AES_init(data.l[2]))
       IN  ret' = [t |-> "compared", a |-> a, b |-> b,
                   eq |-> AES_eq(a, b), ne |-> ~AES_eq(a, b),
                   eq_self |-> AES_eq(a, a), eq_none |-> AES_eq(a, None)]
    /\ pc' = "done"
    /\ UNCHANGED <<op, data, http>>

NextAES == ConstructAES \/ CompareAES

SpecAES == InitAES /\ [][NextAES]_vars

\* two digits, a dot and two digits at position i of s
TwoDigitDotTwoDigit(s, i) ==
    /\ i + 4 <= Len(s)
    /\ s[i] \in Digits /\ s[i + 1] \in Digits
    /\ s[i + 2] = "."
    /\ s[i + 3] \in Digits /\ s[i + 4] \in Digits

\* the substrings of s made of two digits, a dot and two digits
VersionsIn(s) ==
    {SubSeq(s, i, i + 4) : i \in {j \in 1..Len(s) : TwoDigitDotTwoDigit(s, j)}}

\* a payload of the shape the claim is about
AESWellFormed ==
    /\ AESKeys \subseteq DOMAIN data.o
    /\ data.o["mainKey"].t = "str"
    /\ data.o["build"].t = "chars" /\ VersionsIn(data.o["build"].s) # {}
    /\ data.o["updated"].t = "str" /\ data.o["updated"].s \in DOMAIN TimeTable
    /\ data.o["dynamicKeys"] = EmptyList

\* C5: from a payload with mainKey M, a build that contains a version of two
\* digits, a dot and two digits, a well-formed updated string and
\* dynamicKeys [], the constructed record has main_key = M, version = a
\* two-digit.two-digit substring of build, updated = the parsed timestamp
\* and dynamic_keys = [].
C5_KeyRecordFields ==
    (pc = "done" /\ op = "AES" /\ AESWellFormed) =>
        /\ ~IsRaise(ret)
        /\ ret.attrs["main_key"] = data.o["mainKey"]
        /\ ret.attrs["version"].t = "chars"
        /\ ret.attrs["version"].s \in VersionsIn(data.o["build"].s)
        /\ ret.attrs["updated"] = Datetime(TimeTable[data.o["updated"].s])
        /\ ret.attrs["dynamic_keys"] = EmptyList

\* C15: every timestamp field goes through the one timestamp parser, so a
\* present timestamp string that is not in the expected format aborts the
\* construction of its entity with an error; for the AES key record: a
\* malformed updated string makes AES raise, and updated is never None.
C15_MalformedTimestampRaises ==
    (pc = "done" /\ op = "AES" /\ "updated" \in DOMAIN data.o
        /\ data.o["updated"].t = "str" /\ data.o["updated"].s \notin DOMAIN TimeTable) =>
        IsRaise(ret)

\* the values a key record holds
ValuesOf(x) == [k \in DOMAIN x.obj.attrs \ {"raw_data"} |-> x.obj.attrs[k]]

\* C23: two AES key records whose values differ never compare equal; two
\* records built for the same build string in different key formats have
\* equal build and equal version and, their main_key differing, compare
\* unequal (a != b is true, a == b is false); a key record never compares
\* equal to None.
C23_UnequalWhenValuesDiffer ==
    (pc = "done" /\ op = "AES_compare") =>
        /\ ~IsRaise(ret.a.obj) /\ ~IsRaise(ret.b.obj)
        /\ ValuesOf(ret.a) # ValuesOf(ret.b) => (~ret.eq /\ ret.ne)
        /\ Get(data.l[1], "build") = Get(data.l[2], "build") =>
              /\ ret.a.obj.attrs["build"] = ret.b.obj.attrs["build"]
              /\ ret.a.obj.attrs["version"] = ret.b.obj.attrs["version"]
              /\ ret.a.obj.attrs["version"].t = "chars"
              /\ Get(data.l[1], "mainKey") # Get(data.l[2], "mainKey") =>
                    /\ ret.a.obj.attrs["main_key"] # ret.b.obj.attrs["main_key"]
                    /\ ~ret.eq /\ ret.ne
        /\ ~ret.eq_none
        /\ ret.eq_self

\* the same build fetched in the hex and in the base64 key format
C23_Witness ==
    /\ pc = "done" /\ op = "AES_compare"
    /\ Get(data.l[1], "build") = ExampleBuild /\ Get(data.l[2], "build") = ExampleBuild
    /\ Get(data.l[1], "mainKey") = Str("0xABC") /\ Get(data.l[2], "mainKey") = Str("q80=")
    /\ ret.ne /\ ret.a.obj.attrs["version"] = ret.b.obj.attrs["version"]

\* the start of the leftmost two-digit.two-digit substring of s
LeftmostVersion(s) ==
    LET at == {j \in 1..Len(s) : TwoDigitDotTwoDigit(s, j)}
        i  == CHOOSE j \in at : \A k \in at : j <= k
    IN  SubSeq(s, i, i + 4)

\* C25: whenever version is not None it is the leftmost substring of build
\* made of two decimal digits, a literal dot and two decimal digits; no
\* build string yields a version of another shape.
C25_VersionShape ==
    (pc = "done" /\ op = "AES" /\ ~IsRaise(ret) /\ ret.attrs["version"] # None) =>
        /\ ret.attrs["version"].t = "chars"
        /\ TwoDigitDotTwoDigit(ret.attrs["version"].s, 1)
        /\ Len(ret.attrs["version"].s) = 5
        /\ ret.attrs["version"].s = LeftmostVersion(data.o["build"].s)

\* C26: AES construction never raises: a missing or null mainKey, build,
\* updated or dynamicKeys gives main_key None, build None and version None,
\* updated None and dynamic_keys [], and a present build string always
\* gives a constructed record, with version None when it holds no version.
C26_ConstructionTotal ==
    (pc = "done" /\ op = "AES") =>
        /\ ~IsRaise(ret)
        /\ Get(data, "mainKey") = None => ret.attrs["main_key"] = None
        /\ Get(data, "build") = None =>
              ret.attrs["build"] = None /\ ret.attrs["version"] = None
        /\ Get(data, "updated") = None => ret.attrs["updated"] = None
        /\ Get(data, "dynamicKeys") = None => ret.attrs["dynamic_keys"] = EmptyList
        /\ (Get(data, "build").t = "chars" /\ VersionsIn(Get(data, "build").s) = {}) =>
              ret.attrs["version"] = None

(***************************************************************************)
(* The endpoint layer: each operation is called with the same arguments on *)
(* the sync and on the async endpoint class, and the transport gives both  *)
(* the same response.  ret and http map each class to what the call        *)
(* returned and to the requests it issued.                                 *)
(***************************************************************************)
MaxFilters == 2
MaxIds == 3

Classes == {"sync", "async"}
KwNames ==
    {"language", "search_language", "match_method"} \cup
    {SyncFilterTable[i][1] : i \in 1..Len(SyncFilterTable)}

\* the value passed for keyword k, different for every keyword
KwValue(k) ==
    CASE k = "language" -> GameLanguage("de")
      [] k = "search_language" -> GameLanguage("fr")
      [] k = "match_method" -> MatchMethod("contains")
      [] OTHER -> [t |-> "str", s |-> "value", of |-> k]

Languages == {GameLanguage("en"), GameLanguage("de")}
NewsTypes == {Enum("NewsType", "br"), Enum("NewsType", "stw")}
CosmeticIds == {<<"a">>, <<"b">>, <<"a", "b">>}

ItemData == Obj([id |-> Str("CID_A"), name |-> Str("Renegade")])
BadItemData == Obj([name |-> Str("Renegade")])
ListResponses ==
    {None, EmptyObj, Obj([data |-> List(<<ItemData, ItemData>>)]),
     Obj([data |-> List(<<ItemData, BadItemData, ItemData>>)]), Obj([data |-> EmptyList])}
ObjectResponses == {None, EmptyObj, Obj([data |-> ItemData]), Obj([data |-> BadItemData])}

EndpointOps == {"fetch_all", "search_by_id", "search_all", "search_first", "news_fetch",
                "news_fetch_by_type", "shop_fetch"}

InitEndpoints ==
    /\ pc = "call"
    /\ ret = Pending
    /\ http = << >>
    /\ \/ /\ op \in {"fetch_all"}
          /\ \E l \in Languages, r \in ListResponses : data = [language |-> l, response |-> r]
       \/ /\ op = "search_by_id"
          /\ \E n \in 0..MaxIds : \E ids \in [1..n -> CosmeticIds] :
             \E l \in Languages, r \in ListResponses :
                data = [cosmetic_id |-> ids, language |-> l, response |-> r]
       \/ /\ op = "search_all"
          /\ \E ks \in EditSets(KwNames, MaxFilters), r \in ListResponses :
                data = [search_parameters |-> [k \in ks |-> KwValue(k)], response |-> r]
       \/ /\ op = "search_first"
          /\ \E ks \in EditSets(KwNames, MaxFilters), r \in ObjectResponses :
                data = [search_parameters |-> [k \in ks |-> KwValue(k)], response |-> r]
       \/ /\ op \in {"news_fetch", "shop_fetch"}
          /\ \E l \in Languages, r \in ObjectResponses : data = [language |-> l, response |-> r]
       \/ /\ op = "news_fetch_by_type"
          /\ \E t \in NewsTypes, l \in Languages, r \in ObjectResponses :
                data = [news_type |-> t, language |-> l, response |-> r]

\* the call returns on both classes
Returns(outcome) ==
    /\ ret' = [c \in Classes |-> [value |-> outcome[c].value, built |-> outcome[c].built]]
    /\ http' = [c \in Classes |-> outcome[c].reqs]
    /\ pc' = "done"
    /\ UNCHANGED <<op, data>>

FetchAll ==
    /\ pc = "call" /\ op = "fetch_all"
    /\ Returns([c \in Classes |-> fetch_all(data.language, data.response)])

SearchById ==
    /\ pc = "call" /\ op = "search_by_id"
    /\ LET outcome == [c \in Classes |->
                          search_by_id(data.cosmetic_id, data.language, data.response)]
       IN  /\ ret' = [c \in Classes |-> [value |-> outcome[c].value, built |-> outcome[c].built]]
           /\ http' = [c \in Classes |-> outcome[c].reqs]
    /\ data' = [data EXCEPT !.cosmetic_id = search_by_id_args(data.cosmetic_id)]
    /\ pc' = "done"
    /\ UNCHANGED op

SearchAll ==
    /\ pc = "call" /\ op = "search_all"
    /\ Returns([c \in Classes |-> search_all(c, data.search_parameters, data.response)])

SearchFirst ==
    /\ pc = "call" /\ op = "search_first"
    /\ Returns([c \in Classes |-> search_first(c, data.search_parameters, data.response)])

NewsFetch ==
    /\ pc = "call" /\ op = "news_fetch"
    /\ Returns([c \in Classes |-> news_fetch(data.language, data.response)])

NewsFetchByType ==
    /\ pc = "call" /\ op = "news_fetch_by_type"
    /\ Returns([c \in Classes |-> news_fetch_by_type(data.news_type, data.language, data.response)])

ShopFetch ==
    /\ pc = "call" /\ op = "shop_fetch"
    /\ Returns([c \in Classes |-> shop_fetch(data.language, data.response)])

NextEndpoints ==
    \/ FetchAll \/ SearchById \/ SearchAll \/ SearchFirst
    \/ NewsFetch \/ NewsFetchByType \/ ShopFetch

SpecEndpoints == InitEndpoints /\ [][NextEndpoints]_vars

EndpointDone == pc = "done" /\ op \in EndpointOps

\* C9: whenever the transport's get returned None to an operation of the
\* sync or async cosmetics, news and shop endpoint classes, the operation
\* returns None, raises nothing and has called no domain constructor.
C9_NoneResponseGivesNone ==
    EndpointDone =>
        \A c \in Classes :
            (http[c] # << >> /\ data.response = None) =>
                (ret[c].value = None /\ ret[c].built = 0)

\* a search with a filter to which the transport answered None
C9_Witness ==
    /\ EndpointDone /\ op = "search_all"
    /\ data.response = None /\ DOMAIN data.search_parameters = {"rarity"}
    /\ Len(http["sync"]) = 1 /\ Len(http["async"]) = 1
    /\ ret["sync"].value = None /\ ret["async"].value = None

\* C10: for every set of keyword filters the two _parse_search_parameter
\* give the same mapping, and for the same arguments and transport response
\* every sync operation and its async counterpart issue the same requests
\* and return the same result.
C10_SyncAsyncEquivalent ==
    EndpointDone =>
        /\ http["sync"] = http["async"]
        /\ ret["sync"] = ret["async"]
        /\ op \in {"search_all", "search_first"} =>
              Sync_parse_search_parameter(data.search_parameters) =
              Async_parse_search_parameter(data.search_parameters)

\* the query key the API documents for a keyword filter
CamelCase ==
    [type |-> "type", backend_type |-> "backendType", rarity |-> "rarity",
     display_rarity |-> "displayRarity", backend_rarity |-> "backendRarity",
     name |-> "name", short_description |-> "shortDescription",
     description |-> "description", set |-> "set", set_text |-> "setText",
     series |-> "series", has_small_icon |-> "hasSmallIcon", has_icon |-> "hasIcon",
     has_featured_image |-> "hasFeaturedImage",
     has_background_image |-> "hasBackgroundImage", has_cover_art |-> "hasCoverArt",
     has_decal |-> "hasDecal", has_variants |-> "hasVariants",
     has_gameplay_tags |-> "hasGameplayTags", gameplay_tag |-> "gameplayTag"]

\* the mapping the claim describes for the keyword arguments sp
StatedParameters(sp) ==
    LET given == DOMAIN sp \cap DOMAIN CamelCase
    IN  Obj([k \in {"language", "searchLanguage", "matchMethod"} \cup
                   {CamelCase[f] : f \in given} |->
                CASE k = "language" -> EnumValue(KwGet(sp, "language", GameLanguage("en")))
                  [] k = "searchLanguage" ->
                         EnumValue(KwGet(sp, "search_language", GameLanguage("en")))
                  [] k = "matchMethod" ->
                         EnumValue(KwGet(sp, "match_method", MatchMethod("full")))
                  [] OTHER -> sp[CHOOSE f \in given : CamelCase[f] = k]])

\* C27: for every combination of the recognised keyword filters, each
\* _parse_search_parameter returns, without raising, a mapping that holds
\* language, searchLanguage and matchMethod (English, English and full match
\* by default), every supplied filter under its camelCase key with the
\* supplied value, and no key of a filter that was not supplied.
C27_ParsedParameters ==
    (EndpointDone /\ op \in {"search_all", "search_first"}) =>
        \A c \in Classes :
            /\ ~IsRaise(ParseOf(c, data.search_parameters))
            /\ ParseOf(c, data.search_parameters) = StatedParameters(data.search_parameters)
            /\ Len(http[c]) = 1
            /\ http[c][1].params = StatedParameters(data.search_parameters)

RECURSIVE IdParameters(_)
\* "&id=" and the id, for each of the ids
IdParameters(ids) ==
    IF Len(ids) = 0 THEN << >> ELSE <<"&id=">> \o ids[1] \o IdParameters(Tail(ids))

\* C28: for every non-empty sequence of ids, search_by_id issues a get
\* whose path is 'cosmetics/br/search/ids' followed by a query that holds
\* each id as its own id parameter, in the given order: "?id=a&id=b&id=c".
C28_EachIdOwnParameter ==
    (EndpointDone /\ op = "search_by_id" /\ Len(data.cosmetic_id) >= 1) =>
        \A c \in Classes :
            /\ Len(http[c]) = 1
            /\ http[c][1].path =
                  <<"cosmetics/br/search/ids", "?id=">> \o data.cosmetic_id[1] \o
                  IdParameters(Tail(data.cosmetic_id))

\* C29: search_by_id without an id returns None and issues no transport
\* call, in the sync and in the async class; with at least one id it calls
\* the transport exactly once; the caller's ids are the same after the call.
C29_NoIdsNoCall ==
    [][SearchById =>
        /\ data' = data
        /\ \A c \in Classes :
              /\ Len(data.cosmetic_id) = 0 =>
                    (http'[c] = << >> /\ ret'[c].value = None /\ ret'[c].built = 0)
              /\ Len(data.cosmetic_id) >= 1 => Len(http'[c]) = 1]_vars

\* a call without ids has returned
C29_Witness ==
    /\ EndpointDone /\ op = "search_by_id"
    /\ data.cosmetic_id = << >>
    /\ \A c \in Classes : http[c] = << >> /\ ret[c].value = None

(***************************************************************************)
(* Responses: an endpoint operation builds its result from the transport's *)
(* response, or NewCosmetics is built from its payload.                    *)
(***************************************************************************)
InitResponses == InitEndpoints \/ InitNew

NextResponses == NextEndpoints \/ NextNew

SpecResponses == InitResponses /\ [][NextResponses]_vars

ListOps == {"fetch_all", "search_by_id", "search_all"}

\* the items of the response's list, if it has one
ResponseItems ==
    IF data.response.t = "obj" /\ "data" \in DOMAIN data.response.o
       /\ data.response.o["data"].t = "list"
    THEN data.response.o["data"].l ELSE << >>

\* v is the complete list built from the response's items
CompleteList(v) ==
    /\ v.t = "list"
    /\ Len(v.l) = Len(ResponseItems)
    /\ \A i \in 1..Len(v.l) : v.l[i] = BrCosmetic_init(ResponseItems[i])

\* nc is the complete category of internal key k of the payload
CompleteCategory(nc, k) ==
    /\ nc.t = "NewCosmetic"
    /\ {"type", "hash", "last_addition", "items"} \subseteq DOMAIN nc.attrs
    /\ RawOf(nc.attrs["items"]) =
          IF Truthy(data.o["items"].o[k]) THEN data.o["items"].o[k].l ELSE << >>

\* C12: a list operation returns None, raises, or returns the list of all
\* items of the response, and it raises when building any item fails;
\* NewCosmetics raises or has all six categories complete, and it raises
\* when building any category fails.  The caller never receives a prefix.
C12_AllOrNothing ==
    /\ (EndpointDone /\ op \in ListOps) =>
          \A c \in Classes :
              /\ ret[c].value = None \/ IsRaise(ret[c].value) \/ CompleteList(ret[c].value)
              /\ (http[c] # << >> /\ \E i \in 1..Len(ResponseItems) :
                                        IsRaise(BrCosmetic_init(ResponseItems[i])))
                    => IsRaise(ret[c].value)
    /\ (pc = "done" /\ op = "NewCosmetics") =>
          /\ IsRaise(ret) \/
                (/\ ret.t = "NewCosmetics"
                 /\ \A a \in CategoryAttrs : CompleteCategory(ret.attrs[a], Category(a).key))
          /\ (\E a \in CategoryAttrs :
                 IsRaise(create_new_cosmetic(data, Category(a).type, Category(a).key,
                                             Category(a).cls)))
                => IsRaise(ret)

\* a list response whose second item of three cannot be built: the
\* operation raises after it built the first
C12_Witness ==
    /\ EndpointDone /\ op = "fetch_all"
    /\ Len(ResponseItems) = 3
    /\ ~IsRaise(BrCosmetic_init(ResponseItems[1])) /\ IsRaise(BrCosmetic_init(ResponseItems[2]))
    /\ IsRaise(ret["sync"].value) /\ IsRaise(ret["async"].value)

(***************************************************************************)
(* Views: a constructed CosmeticCar or CosmeticImages whose derived         *)
(* properties are read while the caller changes what they are derived      *)
(* from.  ret is the object, data its payload, pc the number of steps      *)
(* taken, http the last read (Pending after a write): the property, the    *)
(* value it returned and the object it was read from.                      *)
(***************************************************************************)
MaxSteps == 3

ViewKeys == {"background", "coverart", "decal"}
VideoIds == {None, Str(""), Str("dQw4w9WgXcQ"), Str("abc")}
OtherValues == {None, Str(""), Str("https://img/new.png")}

InitViews ==
    /\ pc = 0
    /\ http = Pending
    /\ \/ /\ op = "CosmeticCar"
          /\ \E v \in Alt("showcaseVideo") :
                data = Edited(FullTemplate(CarKeys), {<<"showcaseVideo", v>>})
          /\ ret = CosmeticCar_init(data)
       \/ /\ op = "CosmeticImages"
          /\ \E f \in {Absent, FullValue("images").o["featured"]},
                o \in {Absent, None} \cup
                      {MkObj(m) : m \in [ViewKeys -> {Absent, Str(""), Str("https://img/x.png")}]} :
                data = MkObj([k \in {"featured", "lego", "other"} |->
                                 CASE k = "featured" -> f
                                   [] k = "lego" -> FullValue("images").o["lego"]
                                   [] k = "other" -> o])
          /\ ret = CosmeticImages_init(data)

Read(name, value) == [t |-> "read", name |-> name, value |-> value, self |-> ret]

\* car.showcase_video
ReadShowcaseVideo ==
    /\ pc < MaxSteps /\ op = "CosmeticCar"
    /\ http' = Read("showcase_video", Car_showcase_video(ret))
    /\ pc' = pc + 1
    /\ UNCHANGED <<op, data, ret>>

\* car.showcase_video_id = v
SetShowcaseVideoId ==
    /\ pc < MaxSteps /\ op = "CosmeticCar"
    /\ \E v \in VideoIds :
          ret' = [ret EXCEPT !.attrs["showcase_video_id"] = v]
    /\ http' = Pending
    /\ pc' = pc + 1
    /\ UNCHANGED <<op, data>>

\* images.background, images.coverart, images.decal
ReadImage ==
    /\ pc < MaxSteps /\ op = "CosmeticImages"
    /\ \/ http' = Read("background", CosmeticImages_background(ret))
       \/ http' = Read("coverart", CosmeticImages_coverart(ret))
       \/ http' = Read("decal", CosmeticImages_decal(ret))
    /\ pc' = pc + 1
    /\ UNCHANGED <<op, data, ret>>

\* the retained map with key k set to v
WithKey(other, k, v) == Obj([j \in DOMAIN other.o \cup {k} |-> IF j = k THEN v ELSE other.o[j]])

\* the retained map gets, changes or loses a key
WriteOther ==
    /\ pc < MaxSteps /\ op = "CosmeticImages"
    /\ \E k \in ViewKeys :
          \/ \E v \in OtherValues :
                ret' = [ret EXCEPT !.attrs["_other"] = WithKey(@, k, v)]
          \/ /\ k \in DOMAIN ret.attrs["_other"].o
             /\ ret' = [ret EXCEPT !.attrs["_other"] = Without(@, k)]
    /\ http' = Pending
    /\ pc' = pc + 1
    /\ UNCHANGED <<op, data>>

NextViews == ReadShowcaseVideo \/ SetShowcaseVideoId \/ ReadImage \/ WriteOther

SpecViews == InitViews /\ [][NextViews]_vars

VideoUrl(id) == [t |-> "url", prefix |-> "https://www.youtube.com/watch?v=", id |-> id]
ShowcaseRead == http.t = "read" /\ http.name = "showcase_video"

\* C18 as stated: showcase_video is None when showcase_video_id holds no
\* identifier (None) and otherwise the fixed prefix followed by the stored
\* identifier, and reading it leaves showcase_video_id as it was.
C18_ShowcaseVideoAsStated ==
    ShowcaseRead =>
        /\ http.value = IF http.self.attrs["showcase_video_id"] = None THEN None
                        ELSE VideoUrl(http.self.attrs["showcase_video_id"])
        /\ ret = http.self

\* C18: showcase_video is None when showcase_video_id is None or the empty
\* string and otherwise the fixed prefix followed by the stored identifier
\* at the time of the read; reading it changes nothing of the object.
C18_ShowcaseVideoView ==
    ShowcaseRead =>
        /\ http.value = IF http.self.attrs["showcase_video_id"] \in {None, Str("")} THEN None
                        ELSE VideoUrl(http.self.attrs["showcase_video_id"])
        /\ ret = http.self

\* the identifier was replaced after construction and the read shows the
\* new one
C18_Witness ==
    /\ ShowcaseRead
    /\ Get(data, "showcaseVideo") = Str("dQw4w9WgXcQ")
    /\ ret.attrs["showcase_video_id"] = Str("abc")
    /\ http.value = VideoUrl(Str("abc"))

ImageRead == http.t = "read" /\ http.name \in ViewKeys

\* C19 as stated: an accessor returns None when its key is absent from the
\* retained map and otherwise an image reference wrapping the URL stored
\* under the key, looked up at access time, and the access changes nothing.
C19_ImageViewsAsStated ==
    ImageRead =>
        /\ http.value = IF http.name \notin DOMAIN http.self.attrs["_other"].o THEN None
                        ELSE Asset(http.self.attrs["_other"].o[http.name])
        /\ ret = http.self

\* C19: an accessor returns None when its key is absent from the retained
\* map or holds None or the empty string, and otherwise an image reference
\* wrapping the URL the map holds under the key at the time of the access;
\* the access leaves the map, featured and lego unchanged.
C19_ImageViews ==
    ImageRead =>
        /\ http.value =
              IF http.name \notin DOMAIN http.self.attrs["_other"].o
                 \/ http.self.attrs["_other"].o[http.name] \in {None, Str("")}
              THEN None
              ELSE Asset(http.self.attrs["_other"].o[http.name])
        /\ ret = http.self
        /\ ret.attrs["featured"] = AndThen(Get(data, "featured"), Asset(Get(data, "featured")))
        /\ ret.attrs["lego"] = Asset(data.o["lego"])

\* decal was not in the payload's map, was set afterwards, and the access
\* returns the new URL
C19_Witness ==
    /\ ImageRead /\ http.name = "decal"
    /\ "other" \in DOMAIN data.o /\ data.o["other"].t = "obj"
    /\ "decal" \notin DOMAIN data.o["other"].o
    /\ http.value = Asset(Str("https://img/new.png"))
    /\ ret.attrs["_other"].o["decal"] = Str("https://img/new.png")

(***************************************************************************)
(* Concurrent calls on one endpoint object.  Call c has the frame op[c];   *)
(* pc[c] is "idle", "awaiting" (suspended in the transport's get) or       *)
(* "done"; data[c] is the response the transport gave it, ret[c] what it   *)
(* returned or raised.  http holds the endpoint object and the gets the    *)
(* transport received, each with the call that issued it.                  *)
(***************************************************************************)
MaxCalls == 2

Calls == 1..MaxCalls
NoFilters == [k \in {} |-> None]

Frames(cls) ==
    {[cls |-> cls, name |-> "fetch_all", language |-> l, cosmetic_id |-> << >>,
      search_parameters |-> NoFilters] : l \in Languages} \cup
    {[cls |-> cls, name |-> "search_by_id", language |-> GameLanguage("en"), cosmetic_id |-> ids,
      search_parameters |-> NoFilters] : ids \in {<< >>, << <<"a">> >>}} \cup
    {[cls |-> cls, name |-> n, language |-> GameLanguage("en"), cosmetic_id |-> << >>,
      search_parameters |-> [k \in {"rarity"} |-> KwValue(k)]] : n \in {"search_all", "search_first"}}

CallResponses(name) ==
    IF name = "search_first"
    THEN {None, Obj([data |-> ItemData]), Obj([data |-> BadItemData])}
    ELSE {None, Obj([data |-> List(<<ItemData, ItemData>>)]),
          Obj([data |-> List(<<ItemData, BadItemData, ItemData>>)])}

InitCalls ==
    /\ pc = [c \in Calls |-> "idle"]
    /\ data = [c \in Calls |-> Pending]
    /\ ret = [c \in Calls |-> Pending]
    /\ \E cls \in Classes :
          /\ op \in [Calls -> Frames(cls)]
          /\ http = [endpoint |-> CosmeticsEndpoints_init(cls, HttpHandle), gets |-> << >>]

Gets(c, reqs) == [i \in 1..Len(reqs) |-> [call |-> c, req |-> reqs[i]]]

\* call c runs up to its transport get, or returns before it
Issue(c) ==
    /\ pc[c] = "idle"
    /\ LET step == EndpointStep(http.endpoint, op[c], Start)
       IN /\ http' = [endpoint |-> step.self, gets |-> http.gets \o Gets(c, step.reqs)]
          /\ pc' = [pc EXCEPT ![c] = IF step.returned THEN "done" ELSE "awaiting"]
          /\ ret' = [ret EXCEPT ![c] = IF step.returned THEN step.value ELSE Pending]
    /\ UNCHANGED <<op, data>>

\* the transport answers call c and the call runs to its end
Deliver(c) ==
    /\ pc[c] = "awaiting"
    /\ \E r \in CallResponses(op[c].name) :
          LET step == EndpointStep(http.endpoint, op[c], Response(r))
          IN /\ data' = [data EXCEPT ![c] = r]
             /\ http' = [endpoint |-> step.self, gets |-> http.gets \o Gets(c, step.reqs)]
             /\ ret' = [ret EXCEPT ![c] = step.value]
    /\ pc' = [pc EXCEPT ![c] = "done"]
    /\ UNCHANGED op

NextCalls == \E c \in Calls : Issue(c) \/ Deliver(c)

SpecCalls == InitCalls /\ [][NextCalls]_vars

\* the gets that call c has issued
GetsOf(c) == {i \in 1..Len(http.gets) : http.gets[i].call = c}

\* C11: a call issues no get before it starts, exactly one when it reaches
\* the transport and never a second one, whatever the response: not after
\* None, not after a construction error; and a call that is done without a
\* get is one that returned before the transport, so no result comes from
\* an earlier call's response.
C11_OneGetPerCall ==
    \A c \in Calls :
        /\ Cardinality(GetsOf(c)) <= 1
        /\ pc[c] = "idle" => GetsOf(c) = {}
        /\ pc[c] = "awaiting" => Cardinality(GetsOf(c)) = 1
        /\ data[c] # Pending => Cardinality(GetsOf(c)) = 1
        /\ (pc[c] = "done" /\ GetsOf(c) = {}) =>
              (data[c] = Pending /\ Handler(op[c], None).reqs = << >>)
        /\ \A i \in GetsOf(c) : http.gets[i].req = Handler(op[c], None).reqs[1]

\* two calls with the same arguments, one answered None and the other with
\* an item that cannot be built: two gets in all
C11_Witness ==
    /\ op[1] = op[2] /\ op[1].name = "search_all"
    /\ pc[1] = "done" /\ pc[2] = "done"
    /\ data[1] = None /\ ret[1] = None
    /\ IsRaise(ret[2])
    /\ Len(http.gets) = 2

\* C20: in every interleaving a finished call has the result that its
\* operation gives for its own arguments and its own response, a suspended
\* call's get is the request of its own arguments, and the endpoint object
\* is as its constructor left it.
C20_CallsIndependent ==
    /\ http.endpoint = CosmeticsEndpoints_init(http.endpoint.t, HttpHandle)
    /\ \A c \in Calls :
          /\ pc[c] = "done" =>
                ret[c] = Handler(op[c], IF data[c] = Pending THEN None ELSE data[c]).value
          /\ pc[c] = "awaiting" =>
                \E i \in GetsOf(c) : http.gets[i].req = Handler(op[c], None).reqs[1]

\* call 1 started first and is still suspended; call 2, a different
\* operation, started after it and has finished with its own result
C20_Witness ==
    /\ pc[1] = "awaiting" /\ pc[2] = "done"
    /\ op[1].name = "fetch_all" /\ op[2].name = "search_first"
    /\ Len(http.gets) = 2 /\ http.gets[1].call = 1 /\ http.gets[2].call = 2
    /\ ret[2].t = "BrCosmetic"

(***************************************************************************)
(* The wrappers: a CosmeticsAll or a ShopEntry is constructed and iterated. *)
(* ret holds the object and what the iteration yielded.                    *)
(***************************************************************************)
MaxItems == 2

ItemIds == <<"ID_1", "ID_2", "ID_3", "ID_4">>

\* the n-th item of the list under key k; the n-th items of all lists share an id
WrapperItem(k, n) ==
    MkObj([j \in {"id", "added", "name", "description", "vehicleId"} |->
              CASE j = "id" -> Str(ItemIds[n])
                [] j = "added" -> Str(T1)
                [] j = "name" -> Str(k)
                [] j = "vehicleId" -> IF k = "cars" THEN Str("Vehicle_1") ELSE Absent
                [] OTHER -> FullValue(j)])

WrapperList(k, n) == List([i \in 1..n |-> WrapperItem(k, i)])
ShopKeys == {ShopLists[i][2] : i \in 1..Len(ShopLists)}

InitWrappers ==
    /\ pc = "call"
    /\ ret = Pending
    /\ http = << >>
    /\ \/ /\ op = "CosmeticsAll"
          /\ \E n \in [InternalKeys -> 0..MaxItems] :
                data = Obj([k \in InternalKeys |-> WrapperList(k, n[k])])
       \/ /\ op = "ShopEntry"
          /\ \E n \in [ShopKeys -> 0..MaxItems] :
                data = Obj([k \in ShopKeys |-> WrapperList(k, n[k])])

IterateAll ==
    /\ pc = "call" /\ op = "CosmeticsAll"
    /\ LET self == CosmeticsAll_init(data)
       IN ret' = IF IsRaise(self) THEN self
                 ELSE [t |-> "iterated", self |-> self, yielded |-> CosmeticsAll_iter(self),
                       len |-> CosmeticsAll_len(self)]
    /\ pc' = "done"
    /\ UNCHANGED <<op, data, http>>

IterateShopEntry ==
    /\ pc = "call" /\ op = "ShopEntry"
    /\ LET self == ShopEntry_init(data)
       IN ret' = IF IsRaise(self) THEN self
                 ELSE [t |-> "iterated", self |-> self, yielded |-> ShopEntry_cosmetics(self),
                       len |-> Len(ShopEntry_cosmetics(self))]
    /\ pc' = "done"
    /\ UNCHANGED <<op, data, http>>

NextWrappers == IterateAll \/ IterateShopEntry

SpecWrappers == InitWrappers /\ [][NextWrappers]_vars

\* the payloads of the items yielded, each with the class it was built as
Yielded == [i \in 1..Len(ret.yielded) |-> <<ret.yielded[i].t, ret.yielded[i].attrs["raw_data"]>>]

\* the items of the list under payload key k, each with class cls
Expected(k, cls) == [i \in 1..Len(data.o[k].l) |-> <<cls, data.o[k].l[i]>>]

\* C6: iterating CosmeticsAll yields the items of the six category lists in
\* the order br, tracks, instruments, cars, lego, lego kits, and its length
\* is the sum of the lengths of the six lists.
C6_FlattenedOrder ==
    (pc = "done" /\ op = "CosmeticsAll") =>
        /\ ret.t = "iterated"
        /\ Yielded = Expected("br", "CosmeticBr") \o Expected("tracks", "CosmeticTrack") \o
                     Expected("instruments", "CosmeticInstrument") \o Expected("cars", "CosmeticCar") \o
                     Expected("lego", "CosmeticLego") \o Expected("legoKits", "CosmeticLegoKit")
        /\ ret.len = Len(ret.yielded)
        /\ ret.len = Len(data.o["br"].l) + Len(data.o["tracks"].l) + Len(data.o["instruments"].l) +
                     Len(data.o["cars"].l) + Len(data.o["lego"].l) + Len(data.o["legoKits"].l)

\* instruments and cars both have items, and an instrument comes before a car
C6_Witness ==
    /\ pc = "done" /\ op = "CosmeticsAll" /\ ret.t = "iterated"
    /\ Len(data.o["br"].l) = 1 /\ Len(data.o["tracks"].l) = 0
    /\ Len(data.o["instruments"].l) = 2 /\ Len(data.o["cars"].l) = 1
    /\ ret.yielded[2].t = "CosmeticInstrument" /\ ret.yielded[4].t = "CosmeticCar"
    /\ ret.len = Len(data.o["lego"].l) + Len(data.o["legoKits"].l) + 4

\* C7: the cosmetic references of a shop entry are one list per category;
\* the combined iteration is their concatenation, so it keeps every item of
\* every list (also items of different lists with the same id), and for an
\* entry that references one BR and one car cosmetic it is exactly those
\* two, the first a CosmeticBr and the second a CosmeticCar.
C7_ShopEntryCombined ==
    (pc = "done" /\ op = "ShopEntry") =>
        /\ ret.t = "iterated"
        /\ \A i \in 1..Len(ShopLists) :
              [j \in 1..Len(ret.self.attrs[ShopLists[i][1]].l) |->
                  <<ret.self.attrs[ShopLists[i][1]].l[j].t,
                    ret.self.attrs[ShopLists[i][1]].l[j].attrs["raw_data"]>>]
              = Expected(ShopLists[i][2], ShopLists[i][3])
        /\ Yielded = Expected("brItems", "CosmeticBr") \o Expected("tracks", "CosmeticTrack") \o
                     Expected("instruments", "CosmeticInstrument") \o Expected("cars", "CosmeticCar") \o
                     Expected("legoKits", "CosmeticLegoKit")
        /\ (\A k \in ShopKeys : Len(data.o[k].l) = IF k \in {"brItems", "cars"} THEN 1 ELSE 0) =>
              /\ Len(ret.yielded) = 2
              /\ ret.yielded[1] = CosmeticBr_init(data.o["brItems"].l[1])
              /\ ret.yielded[2] = CosmeticCar_init(data.o["cars"].l[1])

\* an entry with one BR and one car cosmetic, which have the same id
C7_Witness ==
    /\ pc = "done" /\ op = "ShopEntry" /\ ret.t = "iterated"
    /\ \A k \in ShopKeys : Len(data.o[k].l) = IF k \in {"brItems", "cars"} THEN 1 ELSE 0
    /\ Len(ret.yielded) = 2
    /\ ret.yielded[1].t = "CosmeticBr" /\ ret.yielded[2].t = "CosmeticCar"
    /\ ret.yielded[1].attrs["id"] = ret.yielded[2].attrs["id"]

(***************************************************************************)
(* Collections: the entities with a collection-typed key are built from a  *)
(* payload that is complete but for its collection keys, each of which is  *)
(* given, null or omitted.                                                 *)
(***************************************************************************)
CollectionOps == {"CosmeticBr", "CosmeticCar", "CosmeticImages", "NewCosmetics", "AES"}

\* the collection-typed keys of the payload of an entity
CollectionKeys(o) ==
    CASE o = "CosmeticBr" -> ListKeys
      [] o = "CosmeticCar" -> ListKeys \cap CarKeys
      [] o = "CosmeticImages" -> {"other"}
      [] o = "NewCosmetics" -> InternalKeys
      [] o = "AES" -> {"dynamicKeys"}

\* the object of the payload that holds the collection keys
Holder(o, d) == IF o = "NewCosmetics" THEN d.o["items"] ELSE d

\* the complete payload of an entity
CompletePayload(o) ==
    CASE o = "CosmeticBr" -> Obj(FullTemplate(BrKeys))
      [] o = "CosmeticCar" -> Obj(FullTemplate(CarKeys))
      [] o = "CosmeticImages" -> ImagesObj
      [] o = "NewCosmetics" -> NewPayloadOf({})
      [] o = "AES" -> Obj([mainKey |-> Str("0xABC"), build |-> ExampleBuild,
                           updated |-> Str(T1), dynamicKeys |-> List(<<DynamicKeyObj>>)])

\* payload d with the collection keys set as f says
WithCollections(o, d, f) ==
    LET h == Holder(o, d)
        g == MkObj([k \in DOMAIN h.o |-> IF k \in DOMAIN f THEN f[k] ELSE h.o[k]])
    IN IF o = "NewCosmetics" THEN Obj([d.o EXCEPT !["items"] = g]) ELSE g

InitCollections ==
    /\ pc = "call"
    /\ ret = Pending
    /\ http = << >>
    /\ op \in CollectionOps
    /\ \E f \in [CollectionKeys(op) -> {"given", "null", "omitted"}] :
          data = WithCollections(op, CompletePayload(op),
                     [k \in CollectionKeys(op) |->
                         CASE f[k] = "given" -> Holder(op, CompletePayload(op)).o[k]
                           [] f[k] = "null" -> None
                           [] f[k] = "omitted" -> Absent])

ConstructImages ==
    /\ pc = "call" /\ op = "CosmeticImages"
    /\ ret' = CosmeticImages_init(data)
    /\ pc' = "done"
    /\ UNCHANGED <<op, data, http>>

NextCollections ==
    ConstructBr \/ ConstructCar \/ ConstructImages \/ ConstructNew \/ ConstructAES

SpecCollections == InitCollections /\ [][NextCollections]_vars

\* the constructor of entity o
InitOf(o, d) ==
    CASE o = "CosmeticBr" -> CosmeticBr_init(d)
      [] o = "CosmeticCar" -> CosmeticCar_init(d)
      [] o = "CosmeticImages" -> CosmeticImages_init(d)
      [] o = "NewCosmetics" -> NewCosmetics_init(d)
      [] o = "AES" -> AES_init(d)

\* the attribute that collection key k fills
CollectionSlot ==
    [variants |-> "variants", searchTags |-> "search_tags",
     gameplayTags |-> "gameplay_tags", metaTags |-> "meta_tags",
     shopHistory |-> "shop_history", other |-> "_other", dynamicKeys |-> "dynamic_keys"]

\* the field of the constructed entity x that collection key k fills
FieldOf(o, x, k) ==
    IF o = "NewCosmetics"
    THEN LET i == CHOOSE j \in 1..Len(Categories) : Categories[j].key = k
         IN  x.attrs[Categories[i].attr].attrs["items"]
    ELSE x.attrs[CollectionSlot[k]]

EmptyOf(o) == IF o = "CosmeticImages" THEN EmptyObj ELSE EmptyList

\* the attributes of x but the payload it keeps
Attributes(x) == [k \in DOMAIN x.attrs \ {"raw_data"} |-> x.attrs[k]]

CollectionDone == pc = "done" /\ op \in CollectionOps

\* the collection keys that are present with a null value
NullKeys == {k \in CollectionKeys(op) \cap DOMAIN Holder(op, data).o : Holder(op, data).o[k] = None}

\* no collection key is omitted
NoneOmitted == CollectionKeys(op) \subseteq DOMAIN Holder(op, data).o

\* what the constructor gives when key k is left out of the payload
Omitting(k) == InitOf(op, WithCollections(op, data, [j \in {k} |-> Absent]))

\* C22, as stated: a collection key that is present with a null value is
\* treated like an absent key: with the key null and with the key absent
\* construction does not raise and the field is an empty collection, for
\* the list fields of CosmeticBr and CosmeticCar, the other map of
\* CosmeticImages, the items of a NewCosmetics category and AES dynamicKeys.
C22_NullLikeAbsent ==
    (CollectionDone /\ NoneOmitted) =>
        \A k \in NullKeys :
            /\ ~IsRaise(ret) /\ FieldOf(op, ret, k) = EmptyOf(op)
            /\ ~IsRaise(Omitting(k)) /\ FieldOf(op, Omitting(k), k) = EmptyOf(op)

\* C22, amended: a collection key that is present with a null value gives
\* an empty collection and construction does not raise; for the list fields
\* of CosmeticBr and CosmeticCar, the other map of CosmeticImages and AES
\* dynamicKeys the record is the one built when the key is absent, whereas
\* a NewCosmetics category whose items entry is absent raises KeyError.
C22_NullCollectionEmpty ==
    (CollectionDone /\ NoneOmitted) =>
        \A k \in NullKeys :
            /\ ~IsRaise(ret) /\ FieldOf(op, ret, k) = EmptyOf(op)
            /\ IF op = "NewCosmetics"
               THEN IsRaise(Omitting(k)) /\ Omitting(k).exc = "KeyError"
               ELSE ~IsRaise(Omitting(k)) /\ Attributes(Omitting(k)) = Attributes(ret)

\* NewCosmetics built from a payload whose items entry of br is null
C22_Witness ==
    /\ CollectionDone /\ op = "NewCosmetics" /\ NoneOmitted
    /\ NullKeys = {"br"}
    /\ ~IsRaise(ret) /\ ret.attrs["br"].attrs["items"] = EmptyList
    /\ ret.attrs["cars"].attrs["items"] # EmptyList

====
